---------------------------- MODULE Spec2Model ----------------------------
(***************************************************************************)
(* A model of to-numbers: the locale adapter (grammar compiler), the       *)
(* tokenizer and ToNumbersCore / ToNumbers (numeral parser and facade).    *)
(* Texts and tokens are strings; a character is a string of length 1.      *)
(* Numbers are integers; a fractional result is a pair num / den.          *)
(***************************************************************************)
EXTENDS Integers, Sequences, FiniteSets, TLC

(***************************************************************************)
(* Strings                                                                 *)
(***************************************************************************)

\* Character i (0-based, as charCodeAt / slice index) of s.
CharAt(s, i) == SubSeq(s, i + 1, i + 1)

\* s.slice(from, to) with 0 <= from, to <= s.length
Slice(s, from, to) == SubSeq(s, from + 1, to)

\* The white space String.prototype.trim and the regex class \s remove.
\* "\f" stands for every such character other than the four ASCII ones
\* (form feed, vertical tab, no-break space, ...).
JsWhiteSpace == {" ", "\t", "\n", "\r", "\f"}

\* The characters the hand-written loops test for: codes 32, 9, 10, 13.
AsciiSpace == {" ", "\t", "\n", "\r"}

\* Letters outside ASCII are written with a digit: "1" is U+0131 (small
\* dotless i), "2" and "3" are U+0259 and U+018F (small and capital schwa),
\* "4" and "5" are U+00F6 and U+00D6 (small and capital o with diaeresis).
DotlessI == "1"

\* The letters String.prototype.toLowerCase and toUpperCase map one to one,
\* each capital above its small letter.
UpperLetters == "ABCDEFGHIJKLMNOPQRSTUVWXYZ35"
LowerLetters == "abcdefghijklmnopqrstuvwxyz24"

\* 0-based index of character c in s at or after i, -1 when absent
IndexIn(s, c, i) ==
  LET at == {k \in i..(Len(s) - 1) : CharAt(s, k) = c}
  IN IF at = {} THEN -1 ELSE CHOOSE k \in at : \A j \in at : k <= j

LowerChar(c) ==
  LET k == IndexIn(UpperLetters, c, 0)
  IN IF k = -1 THEN c ELSE CharAt(LowerLetters, k)

\* the capital of the dotless i is the ASCII "I", whose small letter is "i"
UpperChar(c) ==
  LET k == IndexIn(LowerLetters, c, 0)
  IN IF c = DotlessI THEN "I"
     ELSE IF k = -1 THEN c ELSE CharAt(UpperLetters, k)

RECURSIVE ToLowerCase(_)
\* every character lowered: the two halves of s, each lowered
ToLowerCase(s) ==
  IF Len(s) = 0 THEN ""
  ELSE IF Len(s) = 1 THEN LowerChar(s)
  ELSE ToLowerCase(SubSeq(s, 1, Len(s) \div 2))
         \o ToLowerCase(SubSeq(s, Len(s) \div 2 + 1, Len(s)))

RECURSIVE ToUpperCase(_)
ToUpperCase(s) ==
  IF Len(s) = 0 THEN ""
  ELSE IF Len(s) = 1 THEN UpperChar(s)
  ELSE ToUpperCase(SubSeq(s, 1, Len(s) \div 2))
         \o ToUpperCase(SubSeq(s, Len(s) \div 2 + 1, Len(s)))

\* s without its leading white space
TrimStart(s) ==
  LET kept == {k \in 0..(Len(s) - 1) : CharAt(s, k) \notin JsWhiteSpace}
  IN IF kept = {} THEN ""
     ELSE Slice(s, CHOOSE k \in kept : \A j \in kept : k <= j, Len(s))

\* s without its trailing white space
TrimEnd(s) ==
  LET kept == {k \in 0..(Len(s) - 1) : CharAt(s, k) \notin JsWhiteSpace}
  IN IF kept = {} THEN ""
     ELSE Slice(s, 0, (CHOOSE k \in kept : \A j \in kept : k >= j) + 1)

\* String.prototype.trim
Trim(s) == TrimEnd(TrimStart(s))

\* s.includes(c) for a single character c
Includes(s, c) == IndexIn(s, c, 0) # -1

\* s.startsWith(p, at)
StartsWithAt(s, p, at) ==
  at + Len(p) <= Len(s) /\ Slice(s, at, at + Len(p)) = p

\* s.endsWith(p)
EndsWith(s, p) == Len(p) <= Len(s) /\ Slice(s, Len(s) - Len(p), Len(s)) = p

RECURSIVE SplitOn(_, _)
\* s.split(c) for a single character c: the pieces, empty ones included
SplitOn(s, c) ==
  LET k == IndexIn(s, c, 0)
  IN IF k = -1 THEN <<s>>
     ELSE <<Slice(s, 0, k)>> \o SplitOn(Slice(s, k + 1, Len(s)), c)

RECURSIVE Join(_, _)
\* tokens.join(sep)
Join(tokens, sep) ==
  IF Len(tokens) = 0 THEN ""
  ELSE IF Len(tokens) = 1 THEN tokens[1]
  ELSE tokens[1] \o sep \o Join(Tail(tokens), sep)

\* normalizeWord(word, caseSensitive)
normalizeWord(word, caseSensitive) ==
  IF caseSensitive THEN Trim(word) ELSE ToLowerCase(Trim(word))

(***************************************************************************)
(* Map<string, number>: a sequence of <<key, value>> in insertion order;   *)
(* set() on a present key overwrites the value in place.                   *)
(***************************************************************************)

\* the position of key k in m, 0 when absent (keys are unique)
MapIndex(m, k) ==
  IF \E i \in 1..Len(m) : m[i][1] = k
  THEN CHOOSE i \in 1..Len(m) : m[i][1] = k
  ELSE 0

MapHas(m, k) == MapIndex(m, k) # 0
MapGet(m, k) == m[MapIndex(m, k)][2]
MapSet(m, k, v) ==
  LET i == MapIndex(m, k)
  IN IF i = 0 THEN Append(m, <<k, v>>) ELSE [m EXCEPT ![i] = <<k, v>>]
MapKeys(m) == [i \in 1..Len(m) |-> m[i][1]]
MapKeySet(m) == {m[i][1] : i \in 1..Len(m)}
MapValueSet(m) == {m[i][2] : i \in 1..Len(m)}

SeqToSet(s) == {s[i] : i \in 1..Len(s)}

(***************************************************************************)
(* Grammar descriptions (OriginalLocaleConfig).  A NumberWordMap value is  *)
(* a string or a pair of strings: here a sequence of one or two forms.     *)
(* An absent optional string is "".  The registry LOCALES maps a locale    *)
(* code to one of these.                                                   *)
(***************************************************************************)

NW(n, w) == [number |-> n, value |-> <<w>>, singularValue |-> ""]
EW(n, w) == [number |-> n, value |-> <<w>>]
PF(n, d, pa, pl) == [number |-> n, dual |-> d, paucal |-> pa, plural |-> pl]

NoCurrency ==
  [name |-> "", plural |-> "", singular |-> "",
   fractionalUnit |-> [name |-> "", plural |-> "", singular |-> ""]]

\* English, short scale (the shape of en-US)
EnUS ==
  [ numberWordsMapping |-> <<
      NW(1000000000, "Billion"), NW(1000000, "Million"),
      NW(1000, "Thousand"), NW(100, "Hundred"),
      NW(90, "Ninety"), NW(80, "Eighty"), NW(70, "Seventy"),
      NW(60, "Sixty"), NW(50, "Fifty"), NW(40, "Forty"),
      NW(30, "Thirty"), NW(20, "Twenty"), NW(19, "Nineteen"),
      NW(18, "Eighteen"), NW(17, "Seventeen"), NW(16, "Sixteen"),
      NW(15, "Fifteen"), NW(14, "Fourteen"), NW(13, "Thirteen"),
      NW(12, "Twelve"), NW(11, "Eleven"), NW(10, "Ten"),
      NW(9, "Nine"), NW(8, "Eight"), NW(7, "Seven"), NW(6, "Six"),
      NW(5, "Five"), NW(4, "Four"), NW(3, "Three"), NW(2, "Two"),
      NW(1, "One"), NW(0, "Zero") >>,
    exactWordsMapping |-> <<EW(100, "One Hundred")>>,
    pluralMark |-> "", pluralWords |-> <<>>, pluralForms |-> <<>>,
    texts |-> [and |-> "And", minus |-> "Minus", point |-> "Point",
               only |-> "Only"],
    currency |-> [name |-> "Dollar", plural |-> "Dollars",
                  singular |-> "Dollar",
                  fractionalUnit |-> [name |-> "Cent", plural |-> "Cents",
                                      singular |-> "Cent"]],
    ordinalWordsMapping |-> <<
      EW(90, "Ninetieth"), EW(80, "Eightieth"), EW(70, "Seventieth"),
      EW(60, "Sixtieth"), EW(50, "Fiftieth"), EW(40, "Fortieth"),
      EW(30, "Thirtieth"),
      EW(20, "Twentieth"), EW(12, "Twelfth"), EW(9, "Ninth"),
      EW(8, "Eighth"), EW(5, "Fifth"), EW(3, "Third"), EW(2, "Second"),
      EW(1, "First") >>,
    ordinalExactWordsMapping |-> <<EW(100, "One Hundredth")>>,
    ordinalSuffix |-> "th",
    trim |-> FALSE ]

\* Swahili-like: the exact phrases "<scale> <one>" make "one" a postfix
\* qualifier; no conjunction word
SwKE ==
  [ numberWordsMapping |-> <<
      NW(1000000, "Milioni"), NW(1000, "Elfu"), NW(100, "Mia"),
      NW(20, "Ishirini"), NW(10, "Kumi"), NW(3, "Tatu"), NW(2, "Mbili"),
      NW(1, "Moja"), NW(0, "Sifuri") >>,
    exactWordsMapping |-> <<EW(100, "Mia Moja"), EW(1000, "Elfu Moja")>>,
    pluralMark |-> "", pluralWords |-> <<>>, pluralForms |-> <<>>,
    texts |-> [and |-> "", minus |-> "Hasi", point |-> "Nukta",
               only |-> "Tu"],
    currency |-> [name |-> "Shilingi", plural |-> "Shilingi",
                  singular |-> "",
                  fractionalUnit |-> [name |-> "Senti", plural |-> "Senti",
                                      singular |-> ""]],
    ordinalWordsMapping |-> <<>>,
    ordinalExactWordsMapping |-> <<>>,
    ordinalSuffix |-> "",
    trim |-> FALSE ]

\* Italian-like: the dual of a million is spelled as its plural (implied
\* dual), the dual of a thousand has its own spelling (2 x 1000); the
\* conjunction and the decimal marker are different words
ItIT ==
  [ numberWordsMapping |-> <<
      NW(1000000, "Milione"), NW(1000, "Mille"), NW(100, "Cento"),
      NW(20, "Venti"), NW(10, "Dieci"), NW(3, "Tre"), NW(2, "Due"),
      NW(1, "Uno"), NW(0, "Zero") >>,
    exactWordsMapping |-> <<EW(100, "Cento")>>,
    pluralMark |-> "", pluralWords |-> <<>>,
    pluralForms |-> <<PF(1000, "Duemila", "Mila", "Mila"),
                      PF(1000000, "Milioni", "Milioni", "Milioni")>>,
    texts |-> [and |-> "E", minus |-> "Meno", point |-> "Virgola",
               only |-> ""],
    currency |-> [name |-> "Euro", plural |-> "Euro", singular |-> "",
                  fractionalUnit |-> [name |-> "Centesimo",
                                      plural |-> "Centesimi",
                                      singular |-> ""]],
    ordinalWordsMapping |-> <<>>,
    ordinalExactWordsMapping |-> <<>>,
    ordinalSuffix |-> "",
    trim |-> FALSE ]

\* A grammar with both a postfix "one" and an implied dual, with and without
\* a conjunction word
SwDual ==
  [SwKE EXCEPT !.pluralForms = <<PF(1000000, "Milioni", "", "Milioni")>>]
SwDualAnd == [SwDual EXCEPT !.texts.and = "Na"]
\* English without a conjunction word
EnNoAnd == [EnUS EXCEPT !.texts.and = ""]
\* Italian-like without a conjunction word
ItNoAnd == [ItIT EXCEPT !.texts.and = ""]
\* English whose decimal marker is its conjunction word
EnAndPoint == [EnUS EXCEPT !.texts.point = "And"]

\* az-AZ: the words for 10^6, 1000, 90, 40, 30, 17, 10, 7, 1 and the markers and
\* currency of the locale ("Q1rx" is forty, with a dotless i)
AzAZ ==
  [ numberWordsMapping |-> <<
      NW(1000000, "Milyon"), NW(1000, "Min"), NW(90, "Doxsan"),
      NW(40, "Q1rx"), NW(30, "Otuz"), NW(17, "On Yeddi"), NW(10, "On"),
      NW(7, "Yeddi"), NW(1, "Bir") >>,
    exactWordsMapping |-> <<>>,
    pluralMark |-> "", pluralWords |-> <<>>, pluralForms |-> <<>>,
    texts |-> [and |-> "V2", minus |-> "M2nfi", point |-> "N4qt2",
               only |-> ""],
    currency |-> [name |-> "Manat", plural |-> "Manat", singular |-> "Manat",
                  fractionalUnit |-> [name |-> "Q2pik", plural |-> "Q2pik",
                                      singular |-> "Q2pik"]],
    ordinalWordsMapping |-> <<>>,
    ordinalExactWordsMapping |-> <<>>,
    ordinalSuffix |-> "",
    trim |-> FALSE ]

\* The registry: locale code -> locale class (its config)
LOCALES ==
  [ c \in {"en-US", "en-XA", "sw-KE", "sw-XD", "sw-XA", "it-IT", "it-XA",
           "az-AZ", "en-XP"} |->
      CASE c = "az-AZ" -> AzAZ
        [] c = "en-XP" -> EnAndPoint
        [] c = "en-US" -> EnUS
        [] c = "en-XA" -> EnNoAnd
        [] c = "sw-KE" -> SwKE
        [] c = "sw-XD" -> SwDual
        [] c = "sw-XA" -> SwDualAnd
        [] c = "it-IT" -> ItIT
        [] c = "it-XA" -> ItNoAnd ]

(***************************************************************************)
(* Grammar compiler (localeAdapter)                                        *)
(***************************************************************************)

\* SCALE_VALUES, as powers of ten that fit the model's integers
\* (10^10 and above are outside the modelled range)
SCALE_VALUES ==
  {100, 1000, 10000, 100000, 1000000, 10000000, 100000000, 1000000000}

\* extractWordValue: the non-empty forms of a value
extractWordValue(value) == SelectSeq(value, LAMBDA v : Len(v) > 0)

RECURSIVE SetWords(_, _, _, _, _)
\* wordToNumber.set(normalizeWord(word), number) for words[i..]
SetWords(m, words, number, caseSensitive, i) ==
  IF i > Len(words) THEN m
  ELSE SetWords(MapSet(m, normalizeWord(words[i], caseSensitive), number),
                words, number, caseSensitive, i + 1)

\* if (mapping.singularValue) wordToNumber.set(normalizeWord(...), number)
SetSingular(m, singularValue, number, caseSensitive) ==
  IF singularValue # ""
  THEN MapSet(m, normalizeWord(singularValue, caseSensitive), number)
  ELSE m

RECURSIVE AddNumberWords(_, _, _, _)
\* the loop over config.numberWordsMapping
AddNumberWords(m, mappings, caseSensitive, i) ==
  \* (Len(m) < 0 never holds: it has the map built so far evaluated before
  \* the next mapping is read)
  IF i > Len(mappings) \/ Len(m) < 0 THEN m
  ELSE AddNumberWords(
         SetSingular(SetWords(m, extractWordValue(mappings[i].value),
                              mappings[i].number, caseSensitive, 1),
                     mappings[i].singularValue, mappings[i].number,
                     caseSensitive),
         mappings, caseSensitive, i + 1)

RECURSIVE AddExactWords(_, _, _, _)
\* the loop over config.exactWordsMapping: multi-word phrases are skipped
AddExactWords(m, mappings, caseSensitive, i) ==
  IF i > Len(mappings) THEN m
  ELSE
    LET mapping == mappings[i]
        single == SelectSeq(extractWordValue(mapping.value),
                            LAMBDA w : ~Includes(w, " "))
    IN AddExactWords(SetWords(m, single, mapping.number, caseSensitive, 1),
                     mappings, caseSensitive, i + 1)

\* the plural form of a word gets the number of the word, if it has one
SetPlural(m, base, pluralForm) ==
  IF MapHas(m, base) THEN MapSet(m, pluralForm, MapGet(m, base)) ELSE m

RECURSIVE AddPluralMark(_, _, _, _, _)
\* the loop over config.pluralWords
AddPluralMark(m, words, mark, caseSensitive, i) ==
  IF i > Len(words) THEN m
  ELSE AddPluralMark(
         SetPlural(m, normalizeWord(words[i], caseSensitive),
                   normalizeWord(words[i] \o mark, caseSensitive)),
         words, mark, caseSensitive, i + 1)

\* if (config.pluralMark && config.pluralWords) { the loop }
AddPluralMarks(m, config, caseSensitive) ==
  IF config.pluralMark # "" /\ Len(config.pluralWords) > 0
  THEN AddPluralMark(m, config.pluralWords, config.pluralMark, caseSensitive, 1)
  ELSE m

\* the normalized form of an optional plural form; "" stands for null
NormForm(form, caseSensitive) ==
  IF form # "" THEN normalizeWord(form, caseSensitive) ELSE ""

\* dualNorm && dualNorm !== paucalNorm && dualNorm !== pluralNorm
DualIsDistinct(dualNorm, paucalNorm, pluralNorm) ==
  dualNorm # "" /\ dualNorm # paucalNorm /\ dualNorm # pluralNorm

\* if (form) wordToNumber.set(form, number), form a normalized form
SetForm(m, form, number) ==
  IF form # "" THEN MapSet(m, form, number) ELSE m

\* the three forms of one entry of pluralForms: the dual counts twice the
\* number when it is distinct from the other two
SetForms(m, number, dualNorm, paucalNorm, pluralNorm) ==
  SetForm(SetForm(SetForm(m, dualNorm,
                          IF DualIsDistinct(dualNorm, paucalNorm, pluralNorm)
                          THEN number * 2 ELSE number),
                  paucalNorm, number),
          pluralNorm, number)

RECURSIVE AddPluralForms(_, _, _, _)
\* the loop over Object.entries(config.pluralForms)
AddPluralForms(m, entries, caseSensitive, i) ==
  IF i > Len(entries) THEN m
  ELSE AddPluralForms(
         SetForms(m, entries[i].number,
                  NormForm(entries[i].dual, caseSensitive),
                  NormForm(entries[i].paucal, caseSensitive),
                  NormForm(entries[i].plural, caseSensitive)),
         entries, caseSensitive, i + 1)

buildWordToNumberMap(config, caseSensitive) ==
  AddPluralForms(
    AddPluralMarks(
      AddExactWords(
        AddNumberWords(<<>>, config.numberWordsMapping, caseSensitive, 1),
        config.exactWordsMapping, caseSensitive, 1),
      config, caseSensitive),
    config.pluralForms, caseSensitive, 1)

\* a mapped value is a scale value when it is in SCALE_VALUES or is at
\* least 100 and twice a member of SCALE_VALUES
IsScaleValue(number) ==
  \/ number \in SCALE_VALUES
  \/ number >= 100 /\ number % 2 = 0 /\ (number \div 2) \in SCALE_VALUES

extractScaleWords(wordToNumber) ==
  {n \in MapValueSet(wordToNumber) : IsScaleValue(n)}

\* A number beyond the model's integers is written m x 10^k, with m no
\* multiple of ten.
Tens(m, k) == [m |-> m, k |-> k]

\* SCALE_VALUES written so: all its fifteen members, 10^2 to 10^16
SCALE_VALUES_TENS == {Tens(1, k) : k \in 2..16}

\* number / 2 for a number written so: <<the half>>, or <<>> when the half
\* is no integer (and then in no set of integers)
HalfOfTens(number) ==
  IF number.m % 2 = 0 THEN <<Tens(number.m \div 2, number.k)>>
  ELSE IF number.k >= 1 THEN <<Tens(5 * number.m, number.k - 1)>>
  ELSE <<>>

\* number >= 100 for a number written so
TensAtLeast100(number) ==
  \/ number.k >= 2
  \/ number.k = 1 /\ number.m >= 10
  \/ number.k = 0 /\ number.m >= 100

\* the first test of extractScaleWords alone
IsScaleValueTensNoDouble(number) == number \in SCALE_VALUES_TENS

\* the two tests of extractScaleWords on a number written so
IsScaleValueTens(number) ==
  \/ number \in SCALE_VALUES_TENS
  \/ /\ TensAtLeast100(number)
     /\ HalfOfTens(number) # <<>>
     /\ HalfOfTens(number)[1] \in SCALE_VALUES_TENS

\* extractScaleWords on a map to numbers written so
extractScaleWordsTens(wordToNumber) ==
  {n \in MapValueSet(wordToNumber) : IsScaleValueTens(n)}

\* a variant of extractImpliedDualWords that finds none
extractNoImpliedDualWords(config, caseSensitive) == {}

\* dualNorm && (dualNorm === paucalNorm || dualNorm === pluralNorm)
DualIsImplied(dualNorm, paucalNorm, pluralNorm) ==
  dualNorm # "" /\ (dualNorm = paucalNorm \/ dualNorm = pluralNorm)

extractImpliedDualWords(config, caseSensitive) ==
  { NormForm(config.pluralForms[i].dual, caseSensitive) :
      i \in { j \in 1..Len(config.pluralForms) :
                DualIsImplied(
                  NormForm(config.pluralForms[j].dual, caseSensitive),
                  NormForm(config.pluralForms[j].paucal, caseSensitive),
                  NormForm(config.pluralForms[j].plural, caseSensitive)) } }

extractOneWords(wordToNumber) ==
  { wordToNumber[i][1] :
      i \in { j \in 1..Len(wordToNumber) :
                wordToNumber[j][2] = 1 /\ ~Includes(wordToNumber[j][1], " ") } }

\* a variant of detectUsesPostfixOne without the test on the number
detectUsesPostfixOneAnyNumber(config, scaleWords, oneWords, caseSensitive) ==
  \E i \in 1..Len(config.exactWordsMapping) :
    /\ Len(config.exactWordsMapping[i].value) = 1
    /\ Includes(config.exactWordsMapping[i].value[1], " ")
    /\ Len(SplitOn(config.exactWordsMapping[i].value[1], " ")) = 2
    /\ normalizeWord(SplitOn(config.exactWordsMapping[i].value[1], " ")[2],
                     caseSensitive) \in oneWords

\* some exact-phrase entry is a string of exactly two space-separated parts
\* whose second part is a "one" word and whose number is a scale word value
detectUsesPostfixOne(config, scaleWords, oneWords, caseSensitive) ==
  \E i \in 1..Len(config.exactWordsMapping) :
    LET mapping == config.exactWordsMapping[i]
    IN /\ Len(mapping.value) = 1
       /\ Includes(mapping.value[1], " ")
       /\ LET parts == SplitOn(mapping.value[1], " ")
          IN /\ Len(parts) = 2
             /\ normalizeWord(parts[2], caseSensitive) \in oneWords
             /\ mapping.number \in scaleWords

\* the non-empty ones of name, plural, singular, normalized, in that order
UnitWords(unit, caseSensitive) ==
  LET raw == SelectSeq(<<unit.name, unit.plural, unit.singular>>,
                       LAMBDA w : w # "")
  IN [i \in 1..Len(raw) |-> normalizeWord(raw[i], caseSensitive)]

buildCurrencyWords(config, caseSensitive) ==
  [ mainUnit |-> UnitWords(config.currency, caseSensitive),
    fractionalUnit |-> UnitWords(config.currency.fractionalUnit, caseSensitive) ]

RECURSIVE AddOrdinalWords(_, _, _, _)
AddOrdinalWords(m, mappings, caseSensitive, i) ==
  IF i > Len(mappings) \/ Len(m) < 0 THEN m
  ELSE AddOrdinalWords(
         SetWords(m, extractWordValue(mappings[i].value), mappings[i].number,
                  caseSensitive, 1),
         mappings, caseSensitive, i + 1)

buildOrdinalWordToNumberMap(config, caseSensitive) ==
  AddOrdinalWords(
    AddOrdinalWords(<<>>, config.ordinalWordsMapping, caseSensitive, 1),
    config.ordinalExactWordsMapping, caseSensitive, 1)

\* a text marker as the list the parser consults: [] when it is absent
MarkerList(text, caseSensitive) ==
  IF text # "" THEN <<normalizeWord(text, caseSensitive)>> ELSE <<>>

\* a.split(/\s+/).length: one more than the number of white space runs
WordCount(s) ==
  1 + Cardinality({i \in 0..(Len(s) - 1) :
                     /\ CharAt(s, i) \in JsWhiteSpace
                     /\ i = 0 \/ CharAt(s, i - 1) \notin JsWhiteSpace})

\* the comparator of sortedPhrases: word count descending, then length
\* descending; TRUE when a must come strictly before b
PhraseBefore(a, b) ==
  IF WordCount(b) # WordCount(a) THEN WordCount(a) > WordCount(b)
  ELSE Len(a) > Len(b)

\* the comparator of sortedConcatenatedWords: length descending
LongerBefore(a, b) == Len(a) > Len(b)

\* the comparator named by order
ComesBefore(a, b, order) ==
  IF order = "phrase" THEN PhraseBefore(a, b) ELSE LongerBefore(a, b)

\* the number of elements a stable sort places before s[i]: those that
\* come before it, and the earlier ones it does not come before
SortedBefore(s, i, order) ==
  Cardinality({j \in 1..Len(s) :
                 /\ j # i
                 /\ \/ ComesBefore(s[j], s[i], order)
                    \/ ~ComesBefore(s[i], s[j], order) /\ j < i})

\* Array.prototype.sort with a comparator (stable)
StableSort(s, order) ==
  [r \in 1..Len(s) |->
     s[CHOOSE i \in 1..Len(s) : SortedBefore(s, i, order) = r - 1]]

\* the unit words of one word, as a set
SingleWordUnits(units) == {u \in SeqToSet(units) : ~Includes(u, " ")}
\* the unit words of several words, each split into its words
MultiWordUnits(units) ==
  LET multi == SelectSeq(units, LAMBDA u : Includes(u, " "))
  IN [i \in 1..Len(multi) |-> SplitOn(multi[i], " ")]

\* the text markers, each as a list
MarkerTexts(config, caseSensitive) ==
  [ and |-> MarkerList(config.texts.and, caseSensitive),
    minus |-> MarkerList(config.texts.minus, caseSensitive),
    point |-> MarkerList(config.texts.point, caseSensitive),
    only |-> MarkerList(config.texts.only, caseSensitive) ]

\* the ParserLocaleConfig made of the maps and lists built from config,
\* with the values the adapter computes once and keeps
ParserLocaleConfig(config, caseSensitive, wordToNumber, currencyWords, ordinalWordToNumber, texts) ==
  LET scaleWords == extractScaleWords(wordToNumber)
      oneWords == extractOneWords(wordToNumber)
      sortedPhrases == StableSort(MapKeys(wordToNumber), "phrase")
      specialWords ==
        SelectSeq(texts.minus \o texts.point \o texts.and \o texts.only
                    \o currencyWords.mainUnit \o currencyWords.fractionalUnit
                    \o MapKeys(ordinalWordToNumber),
                  LAMBDA w : Len(w) > 0)
  IN [ wordToNumber |-> wordToNumber,
       scaleWords |-> scaleWords,
       impliedDualWords |-> extractImpliedDualWords(config, caseSensitive),
       oneWords |-> oneWords,
       usesPostfixOne |->
         detectUsesPostfixOne(config, scaleWords, oneWords, caseSensitive),
       texts |-> texts,
       currency |-> currencyWords,
       caseSensitive |-> caseSensitive,
       trim |-> config.trim,
       ordinalWordToNumber |-> ordinalWordToNumber,
       ordinalSuffix |-> NormForm(config.ordinalSuffix, caseSensitive),
       sortedPhrases |-> sortedPhrases,
       multiWordPhrases |-> SelectSeq(sortedPhrases, LAMBDA p : Includes(p, " ")),
       specialWords |-> specialWords,
       sortedConcatenatedWords |->
         StableSort(MapKeys(wordToNumber) \o specialWords, "length"),
       andWordsSet |-> SeqToSet(texts.and),
       mainUnitSet |-> SingleWordUnits(currencyWords.mainUnit),
       fractionalUnitSet |-> SingleWordUnits(currencyWords.fractionalUnit),
       mainUnitMultiWord |-> MultiWordUnits(currencyWords.mainUnit),
       fractionalUnitMultiWord |-> MultiWordUnits(currencyWords.fractionalUnit) ]

buildParserLocaleConfig(config, caseSensitive) ==
  ParserLocaleConfig(config, caseSensitive,
                     buildWordToNumberMap(config, caseSensitive),
                     buildCurrencyWords(config, caseSensitive),
                     buildOrdinalWordToNumberMap(config, caseSensitive),
                     MarkerTexts(config, caseSensitive))

(***************************************************************************)
(* Tokenizer                                                               *)
(***************************************************************************)

RECURSIVE NeedsCleaningFrom(_, _, _)
\* the scan of cleanInput's fast path: two spaces in a row, or a period or
\* comma that ends the text or is followed by a space
NeedsCleaningFrom(trimmed, i, prevWasSpace) ==
  IF i >= Len(trimmed) THEN FALSE
  ELSE LET c == CharAt(trimmed, i)
       IN IF c = " "
          THEN prevWasSpace \/ NeedsCleaningFrom(trimmed, i + 1, TRUE)
          ELSE \/ /\ c \in {".", ","}
                  /\ \/ i = Len(trimmed) - 1
                     \/ CharAt(trimmed, i + 1) = " "
               \/ NeedsCleaningFrom(trimmed, i + 1, FALSE)

RECURSIVE CollapseSpace(_, _)
\* replace(/\s+/g, ' ')
CollapseSpace(s, i) ==
  IF i >= Len(s) THEN ""
  ELSE IF CharAt(s, i) \in JsWhiteSpace
       THEN IF i > 0 /\ CharAt(s, i - 1) \in JsWhiteSpace
            THEN CollapseSpace(s, i + 1)
            ELSE " " \o CollapseSpace(s, i + 1)
       ELSE CharAt(s, i) \o CollapseSpace(s, i + 1)

RECURSIVE StripPunct(_, _)
\* replace(/[.,](?=\s|$)/g, '')
StripPunct(s, i) ==
  IF i >= Len(s) THEN ""
  ELSE IF /\ CharAt(s, i) \in {".", ","}
          /\ \/ i = Len(s) - 1
             \/ CharAt(s, i + 1) \in JsWhiteSpace
       THEN StripPunct(s, i + 1)
       ELSE CharAt(s, i) \o StripPunct(s, i + 1)

\* cleanInput, for a string argument
cleanInput(input) ==
  IF input = "" THEN ""
  ELSE LET trimmed == Trim(input)
       IN IF ~NeedsCleaningFrom(trimmed, 0, FALSE) THEN trimmed
          ELSE StripPunct(CollapseSpace(trimmed, 0), 0)

RECURSIVE SkipSpace(_, _)
\* the position after the run of space, tab, newline, carriage return at pos
SkipSpace(text, pos) ==
  IF pos < Len(text) /\ CharAt(text, pos) \in AsciiSpace
  THEN SkipSpace(text, pos + 1)
  ELSE pos

RECURSIVE WordEnd(_, _)
\* the end of the run of other characters at pos
WordEnd(text, pos) ==
  IF pos < Len(text) /\ CharAt(text, pos) \notin AsciiSpace
  THEN WordEnd(text, pos + 1)
  ELSE pos

\* index in sortedPhrases of the first phrase that matches the text at pos
\* and ends at the end of the text or before a white space character; 0
\* when none does
MatchPhrase(text, pos, sortedPhrases) ==
  LET matching ==
        {i \in 1..Len(sortedPhrases) :
           /\ StartsWithAt(text, sortedPhrases[i], pos)
           /\ \/ pos + Len(sortedPhrases[i]) >= Len(text)
              \/ CharAt(text, pos + Len(sortedPhrases[i])) \in AsciiSpace}
  IN IF matching = {} THEN 0
     ELSE CHOOSE i \in matching : \A j \in matching : i <= j

RECURSIVE tokenizeWithPhrasesFrom(_, _, _, _)
\* the while loop of tokenizeWithPhrases from position pos0
tokenizeWithPhrasesFrom(text, wordMap, sortedPhrases, pos0) ==
  LET pos == SkipSpace(text, pos0)
  IN IF pos >= Len(text) THEN <<>>
     ELSE
       LET k == MatchPhrase(text, pos, sortedPhrases)
       IN IF k # 0
          THEN <<sortedPhrases[k]>> \o
               tokenizeWithPhrasesFrom(text, wordMap, sortedPhrases,
                                       pos + Len(sortedPhrases[k]))
          ELSE
            LET wordEnd == WordEnd(text, pos)
                word == Slice(text, pos, wordEnd)
                here == IF MapHas(wordMap, word) THEN <<word>>
                        ELSE IF Includes(word, "-")
                             THEN SelectSeq(SplitOn(word, "-"),
                                            LAMBDA part : Len(part) > 0)
                             ELSE <<word>>
            IN here \o
               tokenizeWithPhrasesFrom(text, wordMap, sortedPhrases, wordEnd)

tokenizeWithPhrases(text, wordMap, sortedPhrases) ==
  tokenizeWithPhrasesFrom(text, wordMap, sortedPhrases, 0)

RECURSIVE SplitWords(_, _)
\* the words of text from pos, each split at its hyphens: what tokenize
\* does when no wordMap is given
SplitWords(text, pos) ==
  IF SkipSpace(text, pos) >= Len(text) THEN <<>>
  ELSE SelectSeq(SplitOn(Slice(text, SkipSpace(text, pos),
                               WordEnd(text, SkipSpace(text, pos))), "-"),
                 LAMBDA part : Len(part) > 0)
         \o SplitWords(text, WordEnd(text, SkipSpace(text, pos)))

\* tokenize if it took that path with a wordMap too
tokenizeWithoutWordMap(input, caseSensitive, wordMap, sortedPhrases) ==
  IF input = "" THEN <<>>
  ELSE SplitWords(IF caseSensitive THEN Trim(input)
                  ELSE ToLowerCase(Trim(input)), 0)

\* tokenize(input, {caseSensitive, wordMap, sortedPhrases}), for a string
tokenize(input, caseSensitive, wordMap, sortedPhrases) ==
  IF input = "" THEN <<>>
  ELSE LET trimmed == Trim(input)
           text == IF caseSensitive THEN trimmed ELSE ToLowerCase(trimmed)
       IN tokenizeWithPhrases(text, wordMap, sortedPhrases)

\* index in words of the last word the text starts with, 0 when none
LastPrefix(remaining, words) ==
  LET matching == {i \in 1..Len(words) : StartsWithAt(remaining, words[i], 0)}
  IN IF matching = {} THEN 0
     ELSE CHOOSE i \in matching : \A j \in matching : i >= j

\* index in words of the first word the text starts with, 0 when none
FirstPrefix(remaining, words) ==
  LET matching == {i \in 1..Len(words) : StartsWithAt(remaining, words[i], 0)}
  IN IF matching = {} THEN 0
     ELSE CHOOSE i \in matching : \A j \in matching : i <= j

RECURSIVE tokenizeConcatenatedFrom(_, _)
\* the while loop of tokenizeConcatenated
tokenizeConcatenatedFrom(remaining, words) ==
  IF Len(remaining) = 0 THEN <<>>
  ELSE LET k == FirstPrefix(remaining, words)
       IN IF k # 0
          THEN <<words[k]>> \o
               tokenizeConcatenatedFrom(
                 Slice(remaining, Len(words[k]), Len(remaining)), words)
          ELSE tokenizeConcatenatedFrom(Tail(remaining), words)

\* tokenizeConcatenated with the pre-sorted word list given
tokenizeConcatenated(input, caseSensitive, sortedWords) ==
  IF input = "" THEN <<>>
  ELSE LET trimmed == Trim(input)
           text == IF caseSensitive THEN trimmed ELSE ToLowerCase(trimmed)
       IN tokenizeConcatenatedFrom(text, sortedWords)

\* ToNumbersCore.getTokens, given the parser config
getTokens(words, config) ==
  LET cleaned == cleanInput(words)
  IN IF config.trim
     THEN tokenizeConcatenated(cleaned, config.caseSensitive,
                               config.sortedConcatenatedWords)
     ELSE tokenize(cleaned, config.caseSensitive, config.wordToNumber,
                   config.multiWordPhrases)

(***************************************************************************)
(* Numeral parser (ToNumbersCore): integers                                *)
(***************************************************************************)

\* element i of a JavaScript array (0-based)
At(arr, i) == arr[i + 1]

\* num !== undefined && config.scaleWords.has(num), num the token's value
IsScaleToken(token, config) ==
  /\ MapHas(config.wordToNumber, token)
  /\ MapGet(config.wordToNumber, token) \in config.scaleWords

\* a variant of SumRange that takes the first token of the range only
SumRangeFirst(tokens, start, end, config) ==
  IF start >= end THEN 0
  ELSE IF MapHas(config.wordToNumber, At(tokens, start))
       THEN MapGet(config.wordToNumber, At(tokens, start)) ELSE 0

RECURSIVE SumRangeUnknownAsOne(_, _, _, _)
\* a variant of SumRange that counts an unknown token as one
SumRangeUnknownAsOne(tokens, start, end, config) ==
  IF start >= end THEN 0
  ELSE (IF MapHas(config.wordToNumber, At(tokens, start))
        THEN MapGet(config.wordToNumber, At(tokens, start)) ELSE 1)
       + SumRangeUnknownAsOne(tokens, start + 1, end, config)

RECURSIVE SumRange(_, _, _, _)
\* the sum of the values of the known tokens in [start, end)
SumRange(tokens, start, end, config) ==
  IF start >= end THEN 0
  ELSE (IF MapHas(config.wordToNumber, At(tokens, start))
        THEN MapGet(config.wordToNumber, At(tokens, start)) ELSE 0)
       + SumRange(tokens, start + 1, end, config)

RECURSIVE HighestParallelFirst(_, _, _, _, _, _, _)
\* a variant of HighestParallel that takes the first scale word within
\* [start, end), whatever its value
HighestParallelFirst(i, scaleEnd, start, end, scaleIndices, scaleValues, best) ==
  IF i >= scaleEnd THEN best
  ELSE IF At(scaleIndices, i) >= start /\ At(scaleIndices, i) < end THEN i
  ELSE HighestParallelFirst(i + 1, scaleEnd, start, end, scaleIndices,
                            scaleValues, best)

RECURSIVE HighestParallelLast(_, _, _, _, _, _, _)
\* a variant of the loop in which a later scale word of the same value
\* replaces the earlier one
HighestParallelLast(i, scaleEnd, start, end, scaleIndices, scaleValues, best) ==
  IF i >= scaleEnd THEN best
  ELSE HighestParallelLast(i + 1, scaleEnd, start, end, scaleIndices, scaleValues,
         IF /\ At(scaleIndices, i) >= start
            /\ At(scaleIndices, i) < end
            /\ At(scaleValues, i) >= (IF best = -1 THEN 0 ELSE At(scaleValues, best))
         THEN i ELSE best)

RECURSIVE HighestParallel(_, _, _, _, _, _, _)
\* the loop that finds the highest scale word: the position in the scale
\* arrays of the first scale word within [start, end) of the greatest
\* value (a later one replaces it only when strictly greater); -1 if none
HighestParallel(i, scaleEnd, start, end, scaleIndices, scaleValues, best) ==
  IF i >= scaleEnd THEN best
  ELSE
    LET idx == At(scaleIndices, i)
        highestValue == IF best = -1 THEN 0 ELSE At(scaleValues, best)
        next == IF idx >= start /\ idx < end /\ At(scaleValues, i) > highestValue
                THEN i ELSE best
    IN HighestParallel(i + 1, scaleEnd, start, end, scaleIndices,
                       scaleValues, next)

\* a variant of IsPostfixOne that does not look at the left coefficient
IsPostfixOneAnyCoefficient(tokens, rightStart, end, hasExplicitLeftCoefficient, config) ==
  /\ config.usesPostfixOne
  /\ end - rightStart = 1
  /\ At(tokens, rightStart) \in config.oneWords

\* the "<scale> <one>" postfix test on the right side [rightStart, end)
IsPostfixOne(tokens, rightStart, end, hasExplicitLeftCoefficient, config) ==
  /\ config.usesPostfixOne
  /\ ~hasExplicitLeftCoefficient
  /\ end - rightStart = 1
  /\ At(tokens, rightStart) \in config.oneWords

RECURSIVE parseWithParallelScales(_, _, _, _, _, _, _, _, _)
parseWithParallelScales(tokens, start, end, config, scaleIndices, scaleValues, scaleTokens, scaleStart, scaleEnd) ==
  IF start >= end THEN 0
  ELSE
    LET highestScalePos ==
          HighestParallel(scaleStart, scaleEnd, start, end, scaleIndices,
                          scaleValues, -1)
    IN IF highestScalePos = -1 THEN SumRange(tokens, start, end, config)
       ELSE
         LET highestIdx == At(scaleIndices, highestScalePos)
             highestValue == At(scaleValues, highestScalePos)
             highestToken == At(scaleTokens, highestScalePos)
             hasExplicitLeftCoefficient == highestIdx > start
             parsedLeft ==
               parseWithParallelScales(tokens, start, highestIdx, config,
                 scaleIndices, scaleValues, scaleTokens, scaleStart,
                 highestScalePos)
             leftValue ==
               IF hasExplicitLeftCoefficient
               THEN (IF parsedLeft = 0 THEN 1 ELSE parsedLeft)
               ELSE IF highestToken \in config.impliedDualWords THEN 2
               ELSE 1
             rightStart == highestIdx + 1
             parsedRight ==
               parseWithParallelScales(tokens, rightStart, end, config,
                 scaleIndices, scaleValues, scaleTokens,
                 highestScalePos + 1, scaleEnd)
             rightValue ==
               IF rightStart < end
               THEN IF /\ IsPostfixOne(tokens, rightStart, end,
                                       hasExplicitLeftCoefficient, config)
                       /\ ~IsScaleToken(At(tokens, rightStart), config)
                    THEN 0
                    ELSE parsedRight
               ELSE 0
         IN leftValue * highestValue + rightValue

\* the positions (0-based) of the scale words of tokens
ScaleIndexSeq(tokens, config) ==
  LET idx == SelectSeq([i \in 1..Len(tokens) |-> i],
                       LAMBDA i : IsScaleToken(tokens[i], config))
  IN [k \in 1..Len(idx) |-> idx[k] - 1]

parseIntegerTokensNoAnd(tokens, config) ==
  LET len == Len(tokens)
      scaleIndices == ScaleIndexSeq(tokens, config)
      scaleValues == [k \in 1..Len(scaleIndices) |->
                        MapGet(config.wordToNumber, At(tokens, scaleIndices[k]))]
      scaleTokens == [k \in 1..Len(scaleIndices) |-> At(tokens, scaleIndices[k])]
      scaleCount == Len(scaleIndices)
  IN IF scaleCount = 0 THEN SumRange(tokens, 0, len, config)
     ELSE parseWithParallelScales(tokens, 0, len, config, scaleIndices,
                                  scaleValues, scaleTokens, 0, scaleCount)

RECURSIVE HighestPositionLast(_, _, _, _, _, _)
\* a variant of the loop in which a later scale word of the same value
\* replaces the earlier one
HighestPositionLast(i, scaleEnd, start, end, scalePositions, best) ==
  IF i >= scaleEnd THEN best
  ELSE HighestPositionLast(i + 1, scaleEnd, start, end, scalePositions,
         IF /\ At(scalePositions, i).filteredIndex >= start
            /\ At(scalePositions, i).filteredIndex < end
            /\ At(scalePositions, i).value
                 >= (IF best = -1 THEN 0 ELSE At(scalePositions, best).value)
         THEN i ELSE best)

RECURSIVE HighestPosition(_, _, _, _, _, _)
\* the same loop over scalePositions ({filteredIndex, value, token})
HighestPosition(i, scaleEnd, start, end, scalePositions, best) ==
  IF i >= scaleEnd THEN best
  ELSE
    LET sp == At(scalePositions, i)
        highestValue == IF best = -1 THEN 0 ELSE At(scalePositions, best).value
        next == IF /\ sp.filteredIndex >= start
                   /\ sp.filteredIndex < end
                   /\ sp.value > highestValue
                THEN i ELSE best
    IN HighestPosition(i + 1, scaleEnd, start, end, scalePositions, next)

RECURSIVE parseIntegerTokensWithScales(_, _, _, _, _, _, _)
parseIntegerTokensWithScales(tokens, start, end, config, scalePositions, scaleStart, scaleEnd) ==
  IF start >= end THEN 0
  ELSE
    LET highestScalePos ==
          HighestPosition(scaleStart, scaleEnd, start, end, scalePositions, -1)
    IN IF highestScalePos = -1 THEN SumRange(tokens, start, end, config)
       ELSE
         LET sp == At(scalePositions, highestScalePos)
             highestIdx == sp.filteredIndex
             highestValue == sp.value
             highestToken == sp.token
             hasExplicitLeftCoefficient == highestIdx > start
             parsedLeft ==
               parseIntegerTokensWithScales(tokens, start, highestIdx, config,
                 scalePositions, scaleStart, highestScalePos)
             leftValue ==
               IF hasExplicitLeftCoefficient
               THEN (IF parsedLeft = 0 THEN 1 ELSE parsedLeft)
               ELSE IF highestToken \in config.impliedDualWords THEN 2
               ELSE 1
             rightStart == highestIdx + 1
             parsedRight ==
               parseIntegerTokensWithScales(tokens, rightStart, end, config,
                 scalePositions, highestScalePos + 1, scaleEnd)
             rightValue ==
               IF rightStart < end
               THEN IF /\ IsPostfixOne(tokens, rightStart, end,
                                       hasExplicitLeftCoefficient, config)
                       /\ ~IsScaleToken(At(tokens, rightStart), config)
                    THEN 0
                    ELSE parsedRight
               ELSE 0
         IN leftValue * highestValue + rightValue

\* a variant of FilterAnd that keeps the "and" words
FilterAndNothing(tokens, start, end, config) == SubSeq(tokens, start + 1, end)

\* the tokens of [start, end) that are not "and" words
FilterAnd(tokens, start, end, config) ==
  SelectSeq(SubSeq(tokens, start + 1, end),
            LAMBDA t : t \notin config.andWordsSet)

\* the scalePositions of an array of filtered tokens
ScalePositions(filteredTokens, config) ==
  LET idx == ScaleIndexSeq(filteredTokens, config)
  IN [k \in 1..Len(idx) |->
        [ filteredIndex |-> idx[k],
          value |-> MapGet(config.wordToNumber, At(filteredTokens, idx[k])),
          token |-> At(filteredTokens, idx[k]) ]]

parseIntegerTokens(tokens, config) ==
  IF Len(tokens) = 0 THEN 0
  ELSE IF config.andWordsSet = {}
       THEN parseIntegerTokensNoAnd(tokens, config)
       ELSE
         LET filteredTokens == FilterAnd(tokens, 0, Len(tokens), config)
             effectiveLength == Len(filteredTokens)
             scalePositions == ScalePositions(filteredTokens, config)
         IN IF effectiveLength = 0 THEN 0
            ELSE IF Len(scalePositions) = 0
                 THEN SumRange(filteredTokens, 0, effectiveLength, config)
            ELSE parseIntegerTokensWithScales(filteredTokens, 0,
                   effectiveLength, config, scalePositions, 0,
                   Len(scalePositions))

\* the earlier parser's findHighestScale: the position (0-based) of the
\* first scale word of the greatest value among tokens, -1 for null
findHighestScale(tokens, config) ==
  LET scales == {i \in 1..Len(tokens) : IsScaleToken(tokens[i], config)}
      highest == {i \in scales :
                    \A j \in scales :
                      /\ MapGet(config.wordToNumber, tokens[j])
                           <= MapGet(config.wordToNumber, tokens[i])
                      /\ MapGet(config.wordToNumber, tokens[j])
                           = MapGet(config.wordToNumber, tokens[i]) => i <= j}
  IN IF highest = {} THEN -1 ELSE (CHOOSE i \in highest : TRUE) - 1

RECURSIVE sumSimpleNumbers(_, _)
\* the earlier parser's sumSimpleNumbers: the values of the known tokens
sumSimpleNumbers(tokens, config) ==
  IF Len(tokens) = 0 THEN 0
  ELSE (IF MapHas(config.wordToNumber, tokens[1])
        THEN MapGet(config.wordToNumber, tokens[1]) ELSE 0)
       + sumSimpleNumbers(Tail(tokens), config)

RECURSIVE parseIntegerTokensOnSlices(_, _)
\* the earlier parser's parseIntegerTokens: it filters the "and" words out
\* of the tokens, finds their highest scale word and calls itself on the
\* slices before and after it
parseIntegerTokensOnSlices(tokens, config) ==
  IF Len(tokens) = 0 THEN 0
  ELSE
    LET filtered == SelectSeq(tokens, LAMBDA token : token \notin SeqToSet(config.texts.and))
    IN IF Len(filtered) = 0 THEN 0
       ELSE IF findHighestScale(filtered, config) = -1
            THEN sumSimpleNumbers(filtered, config)
       ELSE
         LET index == findHighestScale(filtered, config)
             scaleToken == At(filtered, index)
             scaleValue == MapGet(config.wordToNumber, scaleToken)
             leftTokens == SubSeq(filtered, 1, index)
             rightTokens == SubSeq(filtered, index + 2, Len(filtered))
             hasExplicitLeftCoefficient == Len(leftTokens) > 0
             leftValue ==
               IF hasExplicitLeftCoefficient
               THEN (IF parseIntegerTokensOnSlices(leftTokens, config) = 0 THEN 1
                     ELSE parseIntegerTokensOnSlices(leftTokens, config))
               ELSE IF scaleToken \in config.impliedDualWords THEN 2
               ELSE 1
             isOneWordPostfix ==
               /\ config.usesPostfixOne
               /\ ~hasExplicitLeftCoefficient
               /\ Len(rightTokens) = 1
               /\ rightTokens[1] \in config.oneWords
               /\ findHighestScale(rightTokens, config) = -1
             rightValue ==
               IF Len(rightTokens) > 0 /\ ~isOneWordPostfix
               THEN parseIntegerTokensOnSlices(rightTokens, config)
               ELSE 0
         IN leftValue * scaleValue + rightValue

\* a variant of parseIntegerTokensInRange that reads the tokens from the
\* first one, whatever start is
parseIntegerTokensFromFirst(tokens, start, end, config) ==
  parseIntegerTokens(SubSeq(tokens, 1, end), config)

parseIntegerTokensInRange(tokens, start, end, config) ==
  IF start >= end THEN 0
  ELSE
    LET filteredTokens == FilterAnd(tokens, start, end, config)
        scalePositions == ScalePositions(filteredTokens, config)
    IN IF Len(filteredTokens) = 0 THEN 0
       ELSE IF Len(scalePositions) = 0
            THEN SumRange(filteredTokens, 0, Len(filteredTokens), config)
       ELSE parseIntegerTokensWithScales(filteredTokens, 0,
              Len(filteredTokens), config, scalePositions, 0,
              Len(scalePositions))

(***************************************************************************)
(* Numbers with a fractional part: num / den, den a power of ten, kept in  *)
(* lowest power-of-ten terms so that equal numbers are equal records.      *)
(***************************************************************************)

RECURSIVE Pow10(_)
Pow10(k) == IF k <= 0 THEN 1 ELSE 10 * Pow10(k - 1)

RECURSIVE Num(_, _)
Num(num, den) ==
  IF den > 1 /\ num % 10 = 0 THEN Num(num \div 10, den \div 10)
  ELSE [num |-> num, den |-> den]

Whole(n) == Num(n, 1)
Neg(x) == [num |-> 0 - x.num, den |-> x.den]

RECURSIVE DigitCount(_)
\* Math.floor(Math.log10(value)) + 1 for value >= 1
DigitCount(value) == IF value < 10 THEN 1 ELSE 1 + DigitCount(value \div 10)

(***************************************************************************)
(* Numeral parser: decimals, plain numbers, ordinals                       *)
(***************************************************************************)

\* a variant of isAllSingleDigits that never finds the tokens to be digits
isAllSingleDigitsNever(tokens, config) == FALSE

isAllSingleDigits(tokens, config) ==
  \A i \in 1..Len(tokens) :
    /\ MapHas(config.wordToNumber, tokens[i])
    /\ MapGet(config.wordToNumber, tokens[i]) >= 0
    /\ MapGet(config.wordToNumber, tokens[i]) <= 9

\* the values of the tokens that map to a digit 0..9, in order: the
\* characters of decimalStr
DecimalDigits(tokens, config) ==
  LET digitTokens ==
        SelectSeq(tokens, LAMBDA t : /\ MapHas(config.wordToNumber, t)
                                     /\ MapGet(config.wordToNumber, t) >= 0
                                     /\ MapGet(config.wordToNumber, t) <= 9)
  IN [i \in 1..Len(digitTokens) |-> MapGet(config.wordToNumber, digitTokens[i])]

RECURSIVE ParseDigits(_, _)
\* parseInt(decimalStr, 10) || 0 for a string of digits
ParseDigits(digits, acc) ==
  IF Len(digits) = 0 THEN acc
  ELSE ParseDigits(Tail(digits), acc * 10 + digits[1])

\* { value: parseInt(decimalStr, 10) || 0, places: decimalStr.length }
DigitByDigit(decimalStr) ==
  [value |-> ParseDigits(decimalStr, 0), places |-> Len(decimalStr)]

\* { value, places: value === 0 ? 0 : Math.floor(Math.log10(value)) + 1 }
AsOneNumber(value) ==
  [value |-> value, places |-> IF value = 0 THEN 0 ELSE DigitCount(value)]

parseDecimalTokens(tokens, config) ==
  IF Len(tokens) = 0 THEN [value |-> 0, places |-> 0]
  ELSE
    LET hasZeroPrefix == /\ MapHas(config.wordToNumber, tokens[1])
                         /\ MapGet(config.wordToNumber, tokens[1]) = 0
    IN IF hasZeroPrefix \/ isAllSingleDigits(tokens, config)
       THEN DigitByDigit(DecimalDigits(tokens, config))
       ELSE AsOneNumber(parseIntegerTokens(tokens, config))

combineIntegerAndDecimal(integerPart, decimalPart, decimalPlaces) ==
  IF decimalPart = 0 \/ decimalPlaces = 0 THEN Whole(integerPart)
  ELSE Num(integerPart * Pow10(decimalPlaces) + decimalPart,
           Pow10(decimalPlaces))

RECURSIVE FirstPoint(_, _, _, _)
FirstPoint(tokens, i, end, config) ==
  IF i >= end THEN -1
  ELSE IF At(tokens, i) \in SeqToSet(config.texts.point) THEN i
  ELSE FirstPoint(tokens, i + 1, end, config)

\* a variant of findPointIndexInRange that does not compare the decimal
\* marker with the conjunction word
findPointIndexInRangeAnyMarker(tokens, start, end, config) ==
  LET i == FirstPoint(tokens, start, end, config)
  IN IF i = -1 THEN -1 ELSE i - start

\* index, relative to start, of the first decimal marker in [start, end);
\* -1 when there is none or when the marker is also the conjunction word
findPointIndexInRange(tokens, start, end, config) ==
  IF /\ Len(config.texts.point) > 0
     /\ Len(config.texts.and) > 0
     /\ config.texts.point[1] = config.texts.and[1]
  THEN -1
  ELSE LET i == FirstPoint(tokens, start, end, config)
       IN IF i = -1 THEN -1 ELSE i - start

\* integerTokens.length > 0 ? parseIntegerTokens(integerTokens) : 0
IntegerPart(integerTokens, config) ==
  IF Len(integerTokens) > 0 THEN parseIntegerTokens(integerTokens, config) ELSE 0

\* the integer part with the decimal part, when the decimal part has places
WithDecimal(integerPart, decimalResult) ==
  IF decimalResult.places > 0
  THEN combineIntegerAndDecimal(integerPart, decimalResult.value,
                                decimalResult.places)
  ELSE Whole(integerPart)

\* the value of numberTokens with the decimal marker at pointIndex, -1 for none
SplitAtPoint(numberTokens, pointIndex, config) ==
  IF pointIndex = -1 THEN Whole(parseIntegerTokens(numberTokens, config))
  ELSE WithDecimal(
         IntegerPart(SubSeq(numberTokens, 1, pointIndex), config),
         parseDecimalTokens(
           SubSeq(numberTokens, pointIndex + 2, Len(numberTokens)), config))

\* the value of numberTokens, a decimal marker splitting it if present
ParseUnsigned(numberTokens, config) ==
  SplitAtPoint(numberTokens,
               findPointIndexInRange(numberTokens, 0, Len(numberTokens), config),
               config)

\* isNegative ? -result : result
Signed(x, isNegative) == IF isNegative THEN Neg(x) ELSE x

parseNumberFromTokens(tokens, config) ==
  IF Len(tokens) = 0 THEN Whole(0)
  ELSE Signed(ParseUnsigned(IF tokens[1] \in SeqToSet(config.texts.minus)
                            THEN Tail(tokens) ELSE tokens,
                            config),
              tokens[1] \in SeqToSet(config.texts.minus))

\* a variant of detectOrdinal that never looks the full phrase up
detectOrdinalLastTokenOnly(tokens, config) ==
  IF Len(tokens) = 0 \/ Len(config.ordinalWordToNumber) = 0 THEN <<>>
  ELSE IF MapHas(config.ordinalWordToNumber, tokens[Len(tokens)])
  THEN <<[ordinalTokenIndex |-> Len(tokens) - 1,
          ordinalValue |-> MapGet(config.ordinalWordToNumber,
                                  tokens[Len(tokens)])]>>
  ELSE <<>>

\* detectOrdinal: <<>> for null, else <<[ordinalTokenIndex, ordinalValue]>>
detectOrdinal(tokens, config) ==
  IF Len(tokens) = 0 \/ Len(config.ordinalWordToNumber) = 0 THEN <<>>
  ELSE
    LET fullPhrase == Join(tokens, " ")
        lastToken == tokens[Len(tokens)]
        suffix == config.ordinalSuffix
        baseWord == Slice(lastToken, 0, Len(lastToken) - Len(suffix))
    IN IF Len(tokens) <= 4 /\ MapHas(config.ordinalWordToNumber, fullPhrase)
       THEN <<[ordinalTokenIndex |-> 0,
               ordinalValue |-> MapGet(config.ordinalWordToNumber, fullPhrase)]>>
       ELSE IF MapHas(config.ordinalWordToNumber, lastToken)
       THEN <<[ordinalTokenIndex |-> Len(tokens) - 1,
               ordinalValue |-> MapGet(config.ordinalWordToNumber, lastToken)]>>
       ELSE IF /\ suffix # ""
               /\ EndsWith(lastToken, suffix)
               /\ MapHas(config.wordToNumber, baseWord)
       THEN <<[ordinalTokenIndex |-> Len(tokens) - 1,
               ordinalValue |-> MapGet(config.wordToNumber, baseWord)]>>
       ELSE <<>>

\* parseOrdinalFromTokens: <<>> for null, else <<number>>
parseOrdinalFromTokens(tokens, config) ==
  IF Len(tokens) = 0 THEN <<>>
  ELSE
    LET startIndex == IF tokens[1] \in SeqToSet(config.texts.minus) THEN 1 ELSE 0
        numberTokens == SubSeq(tokens, startIndex + 1, Len(tokens))
        found == detectOrdinal(numberTokens, config)
    IN IF Len(numberTokens) = 0 \/ found = <<>> THEN <<>>
       ELSE
         LET ordinalInfo == found[1]
             cardinalTokens == SubSeq(numberTokens, 1, ordinalInfo.ordinalTokenIndex)
         IN IF ordinalInfo.ordinalTokenIndex = 0 THEN <<ordinalInfo.ordinalValue>>
            ELSE <<parseIntegerTokens(cardinalTokens, config)
                     + ordinalInfo.ordinalValue>>

(***************************************************************************)
(* Numeral parser: currency                                                *)
(***************************************************************************)

\* tokens[i .. i + unitParts.length) = unitParts, within [.., end)
MatchesUnitAt(tokens, i, end, unitParts) ==
  \A j \in 0..(Len(unitParts) - 1) :
    i + j < end /\ At(tokens, i + j) = At(unitParts, j)

RECURSIVE FirstMultiWord(_, _, _, _, _)
\* index of the first multi-word unit that matches at i, 0 when none
FirstMultiWord(tokens, i, end, multiWordUnits, k) ==
  IF k > Len(multiWordUnits) THEN 0
  ELSE IF MatchesUnitAt(tokens, i, end, multiWordUnits[k]) THEN k
  ELSE FirstMultiWord(tokens, i, end, multiWordUnits, k + 1)

RECURSIVE findCurrencyUnitInRange(_, _, _, _, _)
\* <<>> for null, else <<[startIndex, endIndex]>> (absolute indices)
findCurrencyUnitInRange(tokens, start, end, singleWordSet, multiWordUnits) ==
  IF start >= end THEN <<>>
  ELSE
    LET k == FirstMultiWord(tokens, start, end, multiWordUnits, 1)
    IN IF k # 0
       THEN <<[startIndex |-> start,
               endIndex |-> start + Len(multiWordUnits[k])]>>
       ELSE IF At(tokens, start) \in singleWordSet
       THEN <<[startIndex |-> start, endIndex |-> start + 1]>>
       ELSE findCurrencyUnitInRange(tokens, start + 1, end, singleWordSet,
                                    multiWordUnits)

RECURSIVE Dedup(_, _)
\* [...new Set(arr)]: first occurrences, in order
Dedup(arr, seen) ==
  IF Len(arr) = 0 THEN <<>>
  ELSE IF arr[1] \in seen THEN Dedup(Tail(arr), seen)
  ELSE <<arr[1]>> \o Dedup(Tail(arr), seen \cup {arr[1]})

\* the truthy ones of name, plural, singular, lower-cased, in that order
CustomUnitWords(unit) ==
  LET raw == SelectSeq(<<unit.name, unit.plural, unit.singular>>,
                       LAMBDA w : w # "")
  IN [i \in 1..Len(raw) |-> ToLowerCase(raw[i])]

\* getCurrencyConfig(options) when options.currencyOptions is given
getCurrencyConfig(currencyOptions, config) ==
  [ mainUnit |->
      Dedup(CustomUnitWords(currencyOptions) \o config.currency.mainUnit, {}),
    fractionalUnit |->
      Dedup(CustomUnitWords(currencyOptions.fractionalUnit)
              \o config.currency.fractionalUnit, {}) ]

\* a ParseResult; isOrdinal FALSE and currencyInfo <<>> stand for absent
ParseResult(value, isCurrency, isNegative, isOrdinal, currencyInfo) ==
  [ value |-> value, isCurrency |-> isCurrency, isNegative |-> isNegative,
    isOrdinal |-> isOrdinal, currencyInfo |-> currencyInfo ]

CurrencyInfo(mainAmount, fractionalAmount) ==
  <<[mainAmount |-> mainAmount, fractionalAmount |-> fractionalAmount]>>

\* the first main unit in [tokenStart, tokenEnd): the locale's units, or
\* the custom ones when options.currencyOptions is given
MainUnitMatch(tokens, tokenStart, tokenEnd, currencyOptions, config) ==
  IF currencyOptions = <<>>
  THEN findCurrencyUnitInRange(tokens, tokenStart, tokenEnd,
         config.mainUnitSet, config.mainUnitMultiWord)
  ELSE findCurrencyUnitInRange(tokens, tokenStart, tokenEnd,
         SingleWordUnits(getCurrencyConfig(currencyOptions[1], config).mainUnit),
         MultiWordUnits(getCurrencyConfig(currencyOptions[1], config).mainUnit))

\* the first fractional unit in [tokenStart, tokenEnd)
FractionalUnitMatch(tokens, tokenStart, tokenEnd, currencyOptions, config) ==
  IF currencyOptions = <<>>
  THEN findCurrencyUnitInRange(tokens, tokenStart, tokenEnd,
         config.fractionalUnitSet, config.fractionalUnitMultiWord)
  ELSE findCurrencyUnitInRange(tokens, tokenStart, tokenEnd,
         SingleWordUnits(getCurrencyConfig(currencyOptions[1], config).fractionalUnit),
         MultiWordUnits(getCurrencyConfig(currencyOptions[1], config).fractionalUnit))

\* where the fractional amount starts: after the main unit and after the
\* conjunction word that follows it, if one does
FractionalStart(tokens, tokenEnd, mainUnitEnd, config) ==
  IF mainUnitEnd < tokenEnd /\ At(tokens, mainUnitEnd) \in config.andWordsSet
  THEN mainUnitEnd + 1
  ELSE mainUnitEnd

\* a variant of MainAmount that takes the whole range whatever units are found
MainAmountWholeRange(tokens, tokenStart, tokenEnd, mainUnitMatch, fractionalUnitMatch, config) ==
  parseIntegerTokensInRange(tokens, tokenStart, tokenEnd, config)

MainAmount(tokens, tokenStart, tokenEnd, mainUnitMatch, fractionalUnitMatch, config) ==
  IF mainUnitMatch = <<>> /\ fractionalUnitMatch = <<>>
  THEN parseIntegerTokensInRange(tokens, tokenStart, tokenEnd, config)
  ELSE IF mainUnitMatch # <<>>
  THEN parseIntegerTokensInRange(tokens, tokenStart,
                                 mainUnitMatch[1].startIndex, config)
  ELSE 0

FractionalAmount(tokens, tokenStart, tokenEnd, mainUnitMatch, fractionalUnitMatch, config) ==
  IF fractionalUnitMatch = <<>> THEN 0
  ELSE IF mainUnitMatch = <<>>
  THEN parseIntegerTokensInRange(tokens, tokenStart,
                                 fractionalUnitMatch[1].startIndex, config)
  ELSE parseIntegerTokensInRange(
         tokens,
         FractionalStart(tokens, tokenEnd, mainUnitMatch[1].endIndex, config),
         fractionalUnitMatch[1].startIndex, config)

\* value = mainAmount + fractionalAmount / 100, negated if isNegative
CurrencyResult(isNegative, mainAmount, fractionalAmount) ==
  ParseResult(Signed(Num(mainAmount * 100 + fractionalAmount, 100), isNegative),
              TRUE, isNegative, FALSE,
              CurrencyInfo(mainAmount, fractionalAmount))

\* the result for the unit matches found
CurrencyAmounts(tokens, tokenStart, tokenEnd, isNegative, mainUnitMatch, fractionalUnitMatch, config) ==
  CurrencyResult(isNegative,
                 MainAmount(tokens, tokenStart, tokenEnd, mainUnitMatch,
                            fractionalUnitMatch, config),
                 FractionalAmount(tokens, tokenStart, tokenEnd, mainUnitMatch,
                                  fractionalUnitMatch, config))

\* the result for the tokens in [tokenStart, tokenEnd)
CurrencyInRange(tokens, tokenStart, tokenEnd, isNegative, currencyOptions, config) ==
  CurrencyAmounts(tokens, tokenStart, tokenEnd, isNegative,
                  MainUnitMatch(tokens, tokenStart, tokenEnd, currencyOptions,
                                config),
                  FractionalUnitMatch(tokens, tokenStart, tokenEnd,
                                      currencyOptions, config),
                  config)

\* tokenEnd: the trailing "only" word is left out
TokenEnd(tokens, tokenStart, config) ==
  IF /\ Len(tokens) > tokenStart
     /\ tokens[Len(tokens)] \in SeqToSet(config.texts.only)
  THEN Len(tokens) - 1 ELSE Len(tokens)

\* a variant of parseCurrencyTokens that reports isNegative only when an
\* amount stands behind the negation word
parseCurrencyTokensSignOfValue(tokens, currencyOptions, config) ==
  IF Len(tokens) = 0
  THEN ParseResult(Whole(0), TRUE, FALSE, FALSE, CurrencyInfo(0, 0))
  ELSE
    LET tokenStart == IF tokens[1] \in SeqToSet(config.texts.minus) THEN 1 ELSE 0
        unsigned == CurrencyInRange(tokens, tokenStart,
                      TokenEnd(tokens, tokenStart, config), FALSE,
                      currencyOptions, config)
    IN [unsigned EXCEPT !.isNegative = tokenStart = 1 /\ unsigned.value.num > 0,
                        !.value = Signed(unsigned.value, tokenStart = 1)]

\* parseCurrency on the tokens of the input; options.currencyOptions is
\* <<>> when absent
parseCurrencyTokens(tokens, currencyOptions, config) ==
  IF Len(tokens) = 0
  THEN ParseResult(Whole(0), TRUE, FALSE, FALSE, CurrencyInfo(0, 0))
  ELSE
    LET isNegative == tokens[1] \in SeqToSet(config.texts.minus)
        tokenStart == IF isNegative THEN 1 ELSE 0
    IN CurrencyInRange(tokens, tokenStart, TokenEnd(tokens, tokenStart, config),
                       isNegative, currencyOptions, config)

(***************************************************************************)
(* Facade (ToNumbersCore / ToNumbers): the state of one instance and the   *)
(* last call made on it with its outcome                                   *)
(***************************************************************************)

VARIABLES
  localeCode,        \* options.localeCode
  converterOptions,  \* options.converterOptions, the instance defaults
  localeClass,       \* <<>> (undefined) or <<code of the class set by setLocale>>
  locale,            \* <<>> or <<code of the class the locale instance is of>>
  parserConfig,      \* <<>> or <<the compiled grammar>>
  call,              \* the last call: its operation and arguments
  result             \* its outcome: what it returned or threw; while the
                     \* call runs, that it is pending or its locals

vars == <<localeCode, converterOptions, localeClass, locale, parserConfig,
          call, result>>

instance == <<localeCode, converterOptions, localeClass, locale, parserConfig>>

\* an argument of convert / parse: a string, or a value that is no string
Str(s) == [type |-> "string", text |-> s]
NonStrings == {[type |-> "null"], [type |-> "undefined"],
               [type |-> "number"], [type |-> "object"]}

\* ConverterOptions: a field is <<>> when absent, else <<value>>
Options(currency, currencyOptions) ==
  [currency |-> currency, currencyOptions |-> currencyOptions,
   fractionalPrecision |-> <<>>]
\* the options with fractionalPrecision: p
WithPrecision(options, p) == [options EXCEPT !.fractionalPrecision = <<p>>]
NoOptions == Options(<<>>, <<>>)
CurrencyMode == Options(<<TRUE>>, <<>>)
DefaultConverterOptions == Options(<<FALSE>>, <<>>)

Throws(error) == [kind |-> "throws", error |-> error]
Returns(value) == [kind |-> "returns", value |-> value]

\* the compiled grammar of every registered locale class
CompiledLocales ==
  [c \in DOMAIN LOCALES |-> buildParserLocaleConfig(LOCALES[c], FALSE)]

\* the loop of isValidInput: some character at or after i is none of
\* space, tab, newline, carriage return
HasNonSpace(text, i) ==
  \E k \in i..(Len(text) - 1) : CharAt(text, k) \notin AsciiSpace

isValidInput(input) ==
  IF input.type # "string" THEN FALSE ELSE HasNonSpace(input.text, 0)

\* a variant of getLocaleClass that falls back on a registered class when
\* the locale code is unknown
getLocaleClassOrDefault ==
  IF localeClass # <<>> THEN localeClass
  ELSE IF localeCode \in DOMAIN LOCALES THEN <<localeCode>>
  ELSE <<"en-US">>

\* ToNumbers.getLocaleClass: <<the class>>, or <<>> when it throws
\* Unknown Locale
getLocaleClass ==
  IF localeClass # <<>> THEN localeClass
  ELSE IF localeCode \in DOMAIN LOCALES THEN <<localeCode>>
  ELSE <<>>

\* getParserConfig (through getLocale) does not throw
ParserConfigAvailable ==
  parserConfig # <<>> \/ locale # <<>> \/ getLocaleClass # <<>>
\* this.locale and this.parserConfig after getParserConfig returned
LocaleAfter ==
  IF parserConfig # <<>> \/ locale # <<>> THEN locale ELSE getLocaleClass
ParserConfigAfter ==
  IF parserConfig # <<>> THEN parserConfig
  ELSE <<CompiledLocales[LocaleAfter[1]]>>

\* the options a call would run with if the options given to it were not
\* laid over the instance defaults
MergedOptionsOfCallOnly(options) ==
  IF options.currency # <<>> \/ options.currencyOptions # <<>>
  THEN options
  ELSE converterOptions

\* the options a call runs with
MergedOptions(options) ==
  IF options.currency # <<>> \/ options.currencyOptions # <<>>
  THEN [ currency |-> IF options.currency # <<>> THEN options.currency
                      ELSE converterOptions.currency,
         currencyOptions |-> IF options.currencyOptions # <<>>
                             THEN options.currencyOptions
                             ELSE converterOptions.currencyOptions,
         fractionalPrecision |-> IF options.fractionalPrecision # <<>>
                                 THEN options.fractionalPrecision
                                 ELSE converterOptions.fractionalPrecision ]
  ELSE converterOptions

IsCurrencyMode(merged) == merged.currency = <<TRUE>>

\* the number of the tokens outside currency mode: the ordinal if the
\* tokens are one, else the plain number
ConvertNumber(tokens, ordinalResult, config) ==
  IF ordinalResult # <<>> THEN Whole(ordinalResult[1])
  ELSE parseNumberFromTokens(tokens, config)

\* what convert returns for the tokens of a valid input
ConvertTokens(tokens, merged, config) ==
  IF IsCurrencyMode(merged)
  THEN parseCurrencyTokens(tokens, merged.currencyOptions, config).value
  ELSE IF Len(tokens) = 0 THEN Whole(0)
  ELSE ConvertNumber(tokens, parseOrdinalFromTokens(tokens, config), config)

\* what convert returns for a valid input, given the compiled grammar
ConvertValue(text, merged, config) ==
  ConvertTokens(getTokens(text, config), merged, config)

\* the ParseResult outside currency mode, value the plain number
ParseNumber(ordinalResult, value) ==
  IF ordinalResult # <<>>
  THEN ParseResult(Whole(ordinalResult[1]), FALSE, ordinalResult[1] < 0,
                   TRUE, <<>>)
  ELSE ParseResult(value, FALSE, value.num < 0, FALSE, <<>>)

\* what parse returns for the tokens of a valid input
ParseTokens(tokens, merged, config) ==
  IF IsCurrencyMode(merged)
  THEN parseCurrencyTokens(tokens, merged.currencyOptions, config)
  ELSE IF Len(tokens) = 0
  THEN ParseResult(Whole(0), FALSE, FALSE, FALSE, <<>>)
  ELSE ParseNumber(parseOrdinalFromTokens(tokens, config),
                   parseNumberFromTokens(tokens, config))

\* what parse returns for a valid input, given the compiled grammar
ParseValue(text, merged, config) ==
  ParseTokens(getTokens(text, config), merged, config)

\* new ToNumbers({localeCode, converterOptions}): the fields of the instance
Construct(code, options) ==
  /\ localeCode = code
  /\ converterOptions = options
  /\ localeClass = <<>>
  /\ locale = <<>>
  /\ parserConfig = <<>>

\* no call has been made yet
Idle ==
  /\ call = [op |-> "new"]
  /\ result = [kind |-> "none"]

\* the outcome of a call that has been made and has not run yet
Pending == [kind |-> "pending"]

\* the caller makes call c once the call before it has ended
Invoke(c) ==
  /\ result # Pending
  /\ call' = c
  /\ result' = Pending
  /\ UNCHANGED instance

ConvertCall(words, options) ==
  [op |-> "convert", words |-> words, options |-> options]
ParseCall(words, options) ==
  [op |-> "parse", words |-> words, options |-> options]
SetLocaleCall(class) == [op |-> "setLocale", class |-> class]
TokensCall(op, tokens) == [op |-> op, tokens |-> tokens]

\* what the call of op returns for a valid input
ValueOf(op, text, merged, config) ==
  IF op = "convert" THEN ConvertValue(text, merged, config)
  ELSE ParseValue(text, merged, config)

\* the common course of convert and parse, on the arguments of the call
Run(op) ==
  /\ call.op = op
  /\ result = Pending
  /\ IF ~isValidInput(call.words)
     THEN /\ result' = Throws("Invalid Input")
          /\ UNCHANGED instance
     ELSE IF ~ParserConfigAvailable
     THEN /\ result' = Throws("Unknown Locale")
          /\ UNCHANGED instance
     ELSE /\ locale' = LocaleAfter
          /\ parserConfig' = ParserConfigAfter
          /\ result' = Returns(ValueOf(op, call.words.text,
                                       MergedOptions(call.options),
                                       ParserConfigAfter[1]))
          /\ UNCHANGED <<localeCode, converterOptions, localeClass>>
  /\ UNCHANGED call

convert == Run("convert")
parse == Run("parse")

\* a variant of setLocale that keeps the compiled grammar
setLocaleKeepingParserConfig ==
  /\ call.op = "setLocale"
  /\ result = Pending
  /\ localeClass' = <<call.class>>
  /\ locale' = <<>>
  /\ result' = [kind |-> "returns this"]
  /\ UNCHANGED <<localeCode, converterOptions, parserConfig, call>>

setLocale ==
  /\ call.op = "setLocale"
  /\ result = Pending
  /\ localeClass' = <<call.class>>
  /\ locale' = <<>>
  /\ parserConfig' = <<>>
  /\ result' = [kind |-> "returns this"]
  /\ UNCHANGED <<localeCode, converterOptions, call>>

\* a call of a protected parsing method on the tokens of the call, with the
\* compiled grammar of the instance (getParserConfig)
ParsedTokens(op, tokens, config) ==
  IF op = "parseIntegerTokens" THEN parseIntegerTokens(tokens, config)
  ELSE parseNumberFromTokens(tokens, config)

CallOnTokens(op) ==
  /\ call.op = op
  /\ result = Pending
  /\ IF ~ParserConfigAvailable
     THEN /\ result' = Throws("Unknown Locale")
          /\ UNCHANGED instance
     ELSE /\ locale' = LocaleAfter
          /\ parserConfig' = ParserConfigAfter
          /\ result' = Returns(ParsedTokens(op, call.tokens, ParserConfigAfter[1]))
          /\ UNCHANGED <<localeCode, converterOptions, localeClass>>
  /\ UNCHANGED call

callParseIntegerTokens == CallOnTokens("parseIntegerTokens")
callParseNumberFromTokens == CallOnTokens("parseNumberFromTokens")

\* a call of parseIntegerTokensInRange(tokens, start, end, config) with the
\* compiled grammar of the instance
RangeCall(tokens, start, end) ==
  [op |-> "parseIntegerTokensInRange", tokens |-> tokens, start |-> start,
   end |-> end]

callParseIntegerTokensInRange ==
  /\ call.op = "parseIntegerTokensInRange"
  /\ result = Pending
  /\ IF ~ParserConfigAvailable
     THEN /\ result' = Throws("Unknown Locale")
          /\ UNCHANGED instance
     ELSE /\ locale' = LocaleAfter
          /\ parserConfig' = ParserConfigAfter
          /\ result' = Returns(parseIntegerTokensInRange(call.tokens, call.start,
                                  call.end, ParserConfigAfter[1]))
          /\ UNCHANGED <<localeCode, converterOptions, localeClass>>
  /\ UNCHANGED call

\* a call of the tokenizer's cleanInput on the text of the call
CleanInputCall(input) == [op |-> "cleanInput", input |-> input]

callCleanInput ==
  /\ call.op = "cleanInput"
  /\ result = Pending
  /\ result' = Returns(cleanInput(call.input))
  /\ UNCHANGED <<instance, call>>

\* a call of tokenize(input, {wordMap, sortedPhrases}); sortedPhrases is
\* <<>> when the option is left out, else <<the list given>>
TokenizeCall(input, wordMap, sortedPhrases) ==
  [op |-> "tokenize", input |-> input, wordMap |-> wordMap,
   sortedPhrases |-> sortedPhrases]

\* tokenizeWithPhrases gets undefined for a list left out, and matches
\* phrases only when the list is there and not empty
callTokenize ==
  /\ call.op = "tokenize"
  /\ result = Pending
  /\ result' = Returns(tokenize(call.input, FALSE, call.wordMap,
                                IF call.sortedPhrases = <<>> THEN <<>>
                                ELSE call.sortedPhrases[1]))
  /\ UNCHANGED <<instance, call>>

\* a call of tokenizeConcatenated(input, wordMap, false, additionalWords,
\* sortedWords); sortedWords is <<>> when left out, else <<the list given>>
TokenizeConcatenatedCall(input, wordMap, additionalWords, sortedWords) ==
  [op |-> "tokenizeConcatenated", input |-> input, wordMap |-> wordMap,
   additionalWords |-> additionalWords, sortedWords |-> sortedWords]

\* the list given is taken as it is; without it the keys of wordMap and
\* the additional words are sorted, longest first
callTokenizeConcatenated ==
  /\ call.op = "tokenizeConcatenated"
  /\ result = Pending
  /\ result' = Returns(tokenizeConcatenated(call.input, FALSE,
                  IF call.sortedWords # <<>> THEN call.sortedWords[1]
                  ELSE StableSort(MapKeys(call.wordMap) \o call.additionalWords,
                                  "length")))
  /\ UNCHANGED <<instance, call>>

\* a call of extractScaleWords on a map whose numbers are written m x 10^k
callExtractScaleWords ==
  /\ call.op = "extractScaleWords"
  /\ result = Pending
  /\ result' = Returns(extractScaleWordsTens(call.wordToNumber))
  /\ UNCHANGED <<instance, call>>

\* a call of buildParserLocaleConfig(config, false) on a grammar
\* description
callBuildParserLocaleConfig ==
  /\ call.op = "buildParserLocaleConfig"
  /\ result = Pending
  /\ result' = Returns(buildParserLocaleConfig(call.config, FALSE))
  /\ UNCHANGED <<instance, call>>

\* one iteration of the while loop of tokenizeConcatenated: what is left of
\* remaining after it and the token it pushed, if any
ConcatenatedIterationNoSkip(remaining, words) ==
  LET k == FirstPrefix(remaining, words)
  IN IF k # 0
     THEN [remaining |-> Slice(remaining, Len(words[k]), Len(remaining)),
           pushed |-> <<words[k]>>]
     ELSE [remaining |-> remaining, pushed |-> <<>>]

ConcatenatedIteration(remaining, words) ==
  LET k == FirstPrefix(remaining, words)
  IN IF k # 0
     THEN [remaining |-> Slice(remaining, Len(words[k]), Len(remaining)),
           pushed |-> <<words[k]>>]
     ELSE [remaining |-> Tail(remaining), pushed |-> <<>>]

\* a step of tokenizeConcatenated(text, wordMap, caseSensitive, specialWords,
\* sortedWords) on a trimmed text in lower case, with the word list of the
\* compiled grammar: the entry, one iteration of the loop, or the return
tokenizeConcatenatedStep ==
  /\ call.op = "tokenizeConcatenated"
  /\ parserConfig # <<>>
  /\ IF result = Pending
     THEN result' = [kind |-> "running", remaining |-> call.text,
                     tokens |-> <<>>, iterations |-> 0]
     ELSE /\ result.kind = "running"
          /\ IF Len(result.remaining) > 0
             THEN result' =
                    [result EXCEPT
                       !.remaining =
                         ConcatenatedIteration(@, parserConfig[1].sortedConcatenatedWords).remaining,
                       !.tokens =
                         @ \o ConcatenatedIteration(result.remaining,
                                parserConfig[1].sortedConcatenatedWords).pushed,
                       !.iterations = @ + 1]
             ELSE result' = Returns(result.tokens)
  /\ UNCHANGED <<instance, call>>

\* one iteration of the while loop of tokenizeWithPhrases at a position pos
\* that is past the white space: the position after it and the tokens pushed
PhrasesIteration(text, pos, k, wordMap, sortedPhrases) ==
  IF k # 0
  THEN [pos |-> pos + Len(sortedPhrases[k]), pushed |-> <<sortedPhrases[k]>>]
  ELSE [pos |-> WordEnd(text, pos),
        pushed |->
          IF MapHas(wordMap, Slice(text, pos, WordEnd(text, pos)))
          THEN <<Slice(text, pos, WordEnd(text, pos))>>
          ELSE IF Includes(Slice(text, pos, WordEnd(text, pos)), "-")
               THEN SelectSeq(SplitOn(Slice(text, pos, WordEnd(text, pos)), "-"),
                              LAMBDA part : Len(part) > 0)
               ELSE <<Slice(text, pos, WordEnd(text, pos))>>]

\* a step of tokenizeWithPhrases(text, wordMap, sortedPhrases) with the word
\* map and the phrases of the compiled grammar: the entry, one iteration of
\* the loop (which ends the loop when only white space is left), or the
\* return
tokenizeWithPhrasesStep ==
  /\ call.op = "tokenizeWithPhrases"
  /\ parserConfig # <<>>
  /\ IF result = Pending
     THEN result' = [kind |-> "running", pos |-> 0, tokens |-> <<>>,
                     iterations |-> 0]
     ELSE /\ result.kind = "running"
          /\ IF result.pos < Len(call.text)
             THEN IF SkipSpace(call.text, result.pos) >= Len(call.text)
                  THEN result' = [result EXCEPT !.pos = Len(call.text),
                                                !.iterations = @ + 1]
                  ELSE result' =
                         [result EXCEPT
                            !.pos =
                              PhrasesIteration(call.text, SkipSpace(call.text, @),
                                MatchPhrase(call.text, SkipSpace(call.text, @),
                                            parserConfig[1].multiWordPhrases),
                                parserConfig[1].wordToNumber,
                                parserConfig[1].multiWordPhrases).pos,
                            !.tokens =
                              @ \o PhrasesIteration(call.text,
                                     SkipSpace(call.text, result.pos),
                                     MatchPhrase(call.text,
                                       SkipSpace(call.text, result.pos),
                                       parserConfig[1].multiWordPhrases),
                                     parserConfig[1].wordToNumber,
                                     parserConfig[1].multiWordPhrases).pushed,
                            !.iterations = @ + 1]
             ELSE result' = Returns(result.tokens)
  /\ UNCHANGED <<instance, call>>

\* the scale values parseIntegerTokens computes for its scale indices
ScaleValueSeq(tokens, config) ==
  [k \in 1..Len(ScaleIndexSeq(tokens, config)) |->
     MapGet(config.wordToNumber, At(tokens, ScaleIndexSeq(tokens, config)[k]))]

\* one step of the call of parseWithParallelScales on top of the stack (its
\* head), h being the highestScalePos its loop finds and returned the value
\* of the call that returned last: the call returns, or it calls itself on
\* the left or on the right side of the scale word and waits at that stage
ParallelScalesStep(stack, returned, h, tokens, config, scaleIndices, scaleValues) ==
  LET f == Head(stack)
      highestIdx == At(scaleIndices, h)
      leftValue ==
        IF f.stage = "left" THEN (IF returned = 0 THEN 1 ELSE returned)
        ELSE IF At(tokens, highestIdx) \in config.impliedDualWords THEN 2
        ELSE 1
  IN IF f.stage = "enter" /\ f.start >= f.end
     THEN [stack |-> Tail(stack), returned |-> 0]
     ELSE IF f.stage = "enter" /\ h = -1
     THEN [stack |-> Tail(stack),
           returned |-> SumRange(tokens, f.start, f.end, config)]
     ELSE IF f.stage = "enter" /\ highestIdx > f.start
     THEN [stack |-> <<[start |-> f.start, end |-> highestIdx,
                        scaleStart |-> f.scaleStart, scaleEnd |-> h,
                        stage |-> "enter", left |-> 0]>>
                     \o <<[f EXCEPT !.stage = "left"]>> \o Tail(stack),
           returned |-> returned]
     ELSE IF f.stage \in {"enter", "left"}
     THEN IF /\ highestIdx + 1 < f.end
             /\ ~(/\ IsPostfixOne(tokens, highestIdx + 1, f.end,
                                  highestIdx > f.start, config)
                  /\ ~IsScaleToken(At(tokens, highestIdx + 1), config))
          THEN [stack |-> <<[start |-> highestIdx + 1, end |-> f.end,
                             scaleStart |-> h + 1, scaleEnd |-> f.scaleEnd,
                             stage |-> "enter", left |-> 0]>>
                          \o <<[f EXCEPT !.stage = "right", !.left = leftValue]>>
                          \o Tail(stack),
                returned |-> returned]
          ELSE [stack |-> Tail(stack),
                returned |-> leftValue * At(scaleValues, h)]
     ELSE [stack |-> Tail(stack),
           returned |-> f.left * At(scaleValues, h) + returned]

\* a step of parseWithParallelScales(tokens, 0, tokens.length, config, ...)
\* with the scale arrays of tokens: the entry, a step of the call on top of
\* the stack (made counts the calls begun), or the return of the outermost
\* call's value
parseWithParallelScalesStep ==
  /\ call.op = "parseWithParallelScales"
  /\ parserConfig # <<>>
  /\ IF result = Pending
     THEN result' =
            [kind |-> "running",
             scaleIndices |-> ScaleIndexSeq(call.tokens, parserConfig[1]),
             scaleValues |-> ScaleValueSeq(call.tokens, parserConfig[1]),
             stack |-> <<[start |-> 0, end |-> Len(call.tokens), scaleStart |-> 0,
                          scaleEnd |-> Len(ScaleIndexSeq(call.tokens, parserConfig[1])),
                          stage |-> "enter", left |-> 0]>>,
             returned |-> 0,
             made |-> 1]
     ELSE /\ result.kind = "running"
          /\ IF result.stack # <<>>
             THEN LET top == Head(result.stack)
                      step ==
                        ParallelScalesStep(result.stack, result.returned,
                          HighestParallel(top.scaleStart, top.scaleEnd, top.start,
                                          top.end, result.scaleIndices,
                                          result.scaleValues, -1),
                          call.tokens, parserConfig[1], result.scaleIndices,
                          result.scaleValues)
                  IN result' =
                       [result EXCEPT
                          !.stack = step.stack,
                          !.returned = step.returned,
                          !.made = IF Len(step.stack) > Len(result.stack)
                                   THEN @ + 1 ELSE @]
             ELSE result' = Returns(result.returned)
  /\ UNCHANGED <<instance, call>>

(***************************************************************************)
(* Integer parsing on token sequences                                      *)
(***************************************************************************)

\* longest token sequence enumerated
MaxTokens == 4

\* all sequences over V of length at most n
SeqsUpTo(V, n) == UNION {[1..k -> V] : k \in 0..n}

\* the grammars token sequences are parsed with
IntegerLocales ==
  {"en-US", "en-XA", "sw-KE", "sw-XD", "sw-XA", "it-IT", "it-XA"}

\* the tokens the sequences of a locale are drawn from; "zzz" is a word no
\* grammar knows
TokenVocabulary(code) ==
  CASE code = "en-US" -> {"one", "two", "hundred", "thousand", "million", "and", "zzz"}
    [] code = "en-XA" -> {"one", "two", "hundred", "thousand", "million", "zzz"}
    [] code = "sw-KE" -> {"moja", "mbili", "mia", "elfu", "milioni", "zzz"}
    [] code = "sw-XD" -> {"moja", "mbili", "mia", "elfu", "milioni", "zzz"}
    [] code = "sw-XA" -> {"moja", "mbili", "mia", "elfu", "milioni", "na"}
    [] code = "it-IT" -> {"uno", "due", "cento", "mila", "duemila", "milioni", "e"}
    [] code = "it-XA" -> {"uno", "due", "cento", "mila", "duemila", "milioni"}

\* the value of every enumerated sequence stays within the integers of the
\* model: no scale word of a thousand or more stands before a greater one
WithinModelRange(tokens, config) ==
  \A i, j \in 1..Len(tokens) :
    (i < j /\ IsScaleToken(tokens[i], config) /\ IsScaleToken(tokens[j], config))
      => \/ MapGet(config.wordToNumber, tokens[i]) < 1000
         \/ MapGet(config.wordToNumber, tokens[i])
              >= MapGet(config.wordToNumber, tokens[j])

TokenSequences(code) ==
  {t \in SeqsUpTo(TokenVocabulary(code), MaxTokens) :
     WithinModelRange(t, CompiledLocales[code])}

\* an instance of a registered locale and a call of parseIntegerTokens
InitInteger ==
  \E code \in IntegerLocales :
    /\ Construct(code, DefaultConverterOptions)
    /\ call \in {TokensCall("parseIntegerTokens", t) : t \in TokenSequences(code)}
    /\ result = Pending

NextInteger == callParseIntegerTokens

SpecInteger == InitInteger /\ [][NextInteger]_vars

\* the last call was parseIntegerTokens(tokens) and returned
ParsedInteger == call.op = "parseIntegerTokens" /\ result.kind = "returns"

\* the value of a scale word token
ScaleOf(token, config) == MapGet(config.wordToNumber, token)

\* every scale word of the phrase has a value below M
ScalesBelow(phrase, M, config) ==
  \A i \in 1..Len(phrase) :
    IsScaleToken(phrase[i], config) => ScaleOf(phrase[i], config) < M

\* tokens = coef + [scale word of value M] + rem at position k, as C2 and C9
\* ask: coef non-empty with a value of at least 1, smaller scale words only
SplitsAt(tokens, k, config) ==
  /\ IsScaleToken(tokens[k], config)
  /\ k > 1
  /\ parseIntegerTokens(SubSeq(tokens, 1, k - 1), config) >= 1
  /\ ScalesBelow(SubSeq(tokens, 1, k - 1), ScaleOf(tokens[k], config), config)
  /\ ScalesBelow(SubSeq(tokens, k + 1, Len(tokens)), ScaleOf(tokens[k], config),
                 config)

\* C2: scale composition. For every scale word of magnitude M, every
\* non-empty coefficient phrase coef with parseInteger(coef) >= 1 and every
\* remainder phrase rem, all scale words of coef and rem being smaller than
\* M, parseInteger(coef + scaleWord + rem)
\*   = parseInteger(coef) * M + parseInteger(rem).
ScaleComposition ==
  ParsedInteger =>
    \A k \in 1..Len(call.tokens) :
      SplitsAt(call.tokens, k, parserConfig[1]) =>
        result.value =
          parseIntegerTokens(SubSeq(call.tokens, 1, k - 1), parserConfig[1])
            * ScaleOf(call.tokens[k], parserConfig[1])
          + parseIntegerTokens(SubSeq(call.tokens, k + 1, Len(call.tokens)),
                               parserConfig[1])

\* a composition with scale words inside the coefficient and a remainder
ScaleCompositionWitness ==
  /\ ParsedInteger
  /\ call.tokens = <<"two", "hundred", "thousand", "one">>
  /\ SplitsAt(call.tokens, 3, parserConfig[1])
  /\ result.value = 200001

\* C8 (as stated): with usesPostfixOne, for every scale word of magnitude M
\* and every one-word, parseInteger([scaleWord, oneWord]) = M and
\* parseInteger([oneWord, scaleWord, oneWord]) = M + 1.
PostfixOneEveryScaleWord ==
  (ParsedInteger /\ parserConfig[1].usesPostfixOne) =>
    LET t == call.tokens
        config == parserConfig[1]
    IN /\ ( /\ Len(t) = 2
            /\ IsScaleToken(t[1], config)
            /\ t[2] \in config.oneWords )
          => result.value = ScaleOf(t[1], config)
       /\ ( /\ Len(t) = 3
            /\ t[1] \in config.oneWords
            /\ IsScaleToken(t[2], config)
            /\ t[3] \in config.oneWords )
          => result.value = ScaleOf(t[2], config) + 1

\* C8 (amended): with usesPostfixOne, for every scale word of magnitude M
\* that is not an implied-dual word and every one-word,
\* parseInteger([scaleWord, oneWord]) = M; for an implied-dual scale word it
\* is 2 * M; and for every scale word
\* parseInteger([oneWord, scaleWord, oneWord]) = M + 1.
PostfixOne ==
  (ParsedInteger /\ parserConfig[1].usesPostfixOne) =>
    LET t == call.tokens
        config == parserConfig[1]
    IN /\ ( /\ Len(t) = 2
            /\ IsScaleToken(t[1], config)
            /\ t[2] \in config.oneWords )
          => result.value =
               IF t[1] \in config.impliedDualWords
               THEN 2 * ScaleOf(t[1], config)
               ELSE ScaleOf(t[1], config)
       /\ ( /\ Len(t) = 3
            /\ t[1] \in config.oneWords
            /\ IsScaleToken(t[2], config)
            /\ t[3] \in config.oneWords )
          => result.value = ScaleOf(t[2], config) + 1

\* "mia moja" is 100 and not 101
PostfixOneWitness ==
  /\ ParsedInteger
  /\ parserConfig[1].usesPostfixOne
  /\ call.tokens = <<"mia", "moja">>
  /\ result.value = 100

\* the words a grammar description spells the dual of a magnitude with as
\* its paucal or plural, each with the magnitude
DescribedImpliedDuals(description) ==
  { <<normalizeWord(f.dual, FALSE), f.number>> :
      f \in { g \in SeqToSet(description.pluralForms) :
                /\ g.dual # ""
                /\ \/ normalizeWord(g.dual, FALSE) = normalizeWord(g.paucal, FALSE)
                   \/ normalizeWord(g.dual, FALSE) = normalizeWord(g.plural, FALSE) } }

\* C9: implied dual. For every word w that is implied-dual for magnitude M,
\* parseInteger([w]) = 2 * M, and for every coefficient phrase coef with
\* parseInteger(coef) >= 1 placed before it (a coefficient: its scale words
\* are smaller than M), parseInteger(coef + w) = parseInteger(coef) * M.
ImpliedDual ==
  ParsedInteger =>
    \A wm \in DescribedImpliedDuals(LOCALES[locale[1]]) :
      LET t == call.tokens
          config == parserConfig[1]
      IN /\ t = <<wm[1]>> => result.value = 2 * wm[2]
         /\ ( /\ Len(t) > 1
              /\ t[Len(t)] = wm[1]
              /\ SplitsAt(t, Len(t), config) )
            => result.value =
                 parseIntegerTokens(SubSeq(t, 1, Len(t) - 1), config) * wm[2]

\* "milioni" alone is two million, "due cento milioni" two hundred million
ImpliedDualWitness ==
  /\ ParsedInteger
  /\ \/ call.tokens = <<"milioni">> /\ result.value = 2000000
     \/ call.tokens = <<"due", "cento", "milioni">> /\ result.value = 200000000
  /\ <<"milioni", 1000000>> \in DescribedImpliedDuals(LOCALES[locale[1]])

(***************************************************************************)
(* Round trip with the canonical English wording                           *)
(***************************************************************************)

\* every coefficient up to this one is tried as the last group
MaxSmallCoefficient == 21

\* the canonical wording of 1..99 as the numbers its words stand for: the
\* number itself up to twenty, else the tens and the unit
ValuesUnder100(r) ==
  IF r = 0 THEN <<>>
  ELSE IF r <= 20 THEN <<r>>
  ELSE <<(r \div 10) * 10>> \o (IF r % 10 = 0 THEN <<>> ELSE <<r % 10>>)

\* a group: its coefficient below 1000, "hundred" inside, before its scale word
GroupValues(c, scale) ==
  IF c = 0 THEN <<>>
  ELSE (IF c >= 100 THEN <<c \div 100, 100>> ELSE <<>>)
       \o ValuesUnder100(c % 100)
       \o (IF scale = 1 THEN <<>> ELSE <<scale>>)

\* the canonical wording of n < 2 * 10^9, groups in descending scale order
ValuesFor(n) ==
  IF n = 0 THEN <<0>>
  ELSE GroupValues(n \div 1000000000, 1000000000)
       \o GroupValues((n \div 1000000) % 1000, 1000000)
       \o GroupValues((n \div 1000) % 1000, 1000)
       \o GroupValues(n % 1000, 1)

\* the word a grammar description spells the number v with
SpelledWord(v, description) ==
  LET mapping == CHOOSE m \in SeqToSet(description.numberWordsMapping) :
                   m.number = v
  IN mapping.value[1]

\* the canonical wording of n as the tokens of its words
WordsFor(n, description) ==
  [i \in 1..Len(ValuesFor(n)) |->
     normalizeWord(SpelledWord(ValuesFor(n)[i], description), FALSE)]

\* the integers worded: every small last group and some greater ones, under
\* some thousands, millions and billions
RoundTripNumbers ==
  { b * 1000000000 + m * 1000000 + t * 1000 + u :
      b \in {0, 1},
      m \in {0, 1, 30, 876, 999},
      t \in {0, 1, 12, 543, 999},
      u \in (0..MaxSmallCoefficient) \cup {40, 99, 100, 101, 110, 210, 999} }

\* each wording with its integer
CanonicalWordings == {<<WordsFor(n, EnUS), n>> : n \in RoundTripNumbers}

\* the English grammars, with and without a conjunction
EnglishLocales == {"en-US", "en-XA"}

InitRoundTrip ==
  \E code \in EnglishLocales :
    /\ Construct(code, DefaultConverterOptions)
    /\ call \in {TokensCall("parseIntegerTokens", w[1]) : w \in CanonicalWordings}
    /\ result = Pending

NextRoundTrip == callParseIntegerTokens

SpecRoundTrip == InitRoundTrip /\ [][NextRoundTrip]_vars

\* C1: round trip on canonical wordings. For a short-scale English-style
\* grammar and every integer n tried, parseInteger applied to the canonical
\* wording of n (groups in descending scale order, each coefficient below
\* 1000 before its scale word, "hundred" inside a group) returns exactly n.
RoundTrip ==
  ParsedInteger =>
    \A w \in CanonicalWordings : call.tokens = w[1] => result.value = w[2]

\* "one billion eight hundred seventy six million five hundred forty three
\* thousand two hundred ten" has been parsed
RoundTripWitness ==
  /\ ParsedInteger
  /\ call.tokens = WordsFor(1876543210, EnUS)
  /\ Len(call.tokens) = 15
  /\ result.value = 1876543210

(***************************************************************************)
(* The facade: instances, calls of convert, parse and setLocale            *)
(***************************************************************************)

\* longest text enumerated character by character
MaxChars == 2

\* white space of each kind and a letter
Alphabet == {" ", "\t", "\f", "x"}

RECURSIVE StringsUpTo(_)
\* the strings over Alphabet of length at most n
StringsUpTo(n) ==
  IF n = 0 THEN {""}
  ELSE StringsUpTo(n - 1)
         \cup {s \o c : s \in StringsUpTo(n - 1), c \in Alphabet}

Texts == StringsUpTo(MaxChars) \cup {"Twenty One", "Mia Moja"}

Arguments == NonStrings \cup {Str(t) : t \in Texts}

\* locale codes given to the constructor: registered ones and one that is not
LocaleCodes == {"en-US", "xx-XX"}

Calls ==
  {ConvertCall(w, o) : w \in Arguments, o \in {NoOptions, CurrencyMode}}
    \cup {ParseCall(w, o) : w \in Arguments, o \in {NoOptions, CurrencyMode}}
    \cup {SetLocaleCall("sw-KE")}

Init ==
  /\ \E code \in LocaleCodes : Construct(code, DefaultConverterOptions)
  /\ Idle

Next ==
  \/ \E c \in Calls : Invoke(c)
  \/ convert
  \/ parse
  \/ setLocale

Spec == Init /\ [][Next]_vars

\* a call of convert or parse has ended
Converted == call.op \in {"convert", "parse"} /\ result # Pending

\* the text is made only of white space (as trim and \s know it)
OnlyWhiteSpace(text) ==
  \A k \in 0..(Len(text) - 1) : CharAt(text, k) \in JsWhiteSpace

\* C3: invalid input. convert and parse throw an InvalidInput error whenever
\* the argument is null, undefined, not a text value, the empty string, or
\* made only of whitespace; no number or ParseResult is returned then.
InvalidInputThrows ==
  ( /\ Converted
    /\ \/ call.words.type # "string"
       \/ OnlyWhiteSpace(call.words.text) )
  => result = Throws("Invalid Input")

\* C4: unknown locale. Creating an instance with a locale identifier that is
\* not in the registry does not throw, and a convert or parse call on it
\* with valid input, no locale class having been set, throws UnknownLocale
\* instead of returning a value.
UnknownLocaleThrows ==
  /\ call.op = "new" => result.kind = "none"
  /\ ( /\ Converted
       /\ localeCode \notin DOMAIN LOCALES
       /\ localeClass = <<>>
       /\ isValidInput(call.words) )
     => result = Throws("Unknown Locale")

\* convert("Twenty One") on an instance made for "xx-XX" has thrown
UnknownLocaleThrowsWitness ==
  /\ localeCode = "xx-XX"
  /\ localeClass = <<>>
  /\ call = ConvertCall(Str("Twenty One"), NoOptions)
  /\ result = Throws("Unknown Locale")

(***************************************************************************)
(* Negation                                                                *)
(***************************************************************************)

\* phrases convert accepts: cardinal, decimal and ordinal ones
NegationPhrases(code) ==
  IF code \in EnglishLocales
  THEN {head \o tail :
          head \in {"", "Twenty ", "One Hundred ", "Two Thousand And "},
          tail \in {"One", "Five", "First", "Third", "Point Five", "Zero"}}
  ELSE {head \o tail :
          head \in {"", "Mia ", "Elfu Mbili "},
          tail \in {"Moja", "Tatu", "Nukta Tatu", "Sifuri"}}

\* minusWord + " " + s, the minus word as the description spells it
Negated(s, code) == LOCALES[code].texts.minus \o " " \o s

NegationLocales == {"en-US", "en-XA", "sw-KE"}

InitNegation ==
  \E code \in NegationLocales :
    /\ Construct(code, DefaultConverterOptions)
    /\ call \in {ConvertCall(Str(s), NoOptions) : s \in NegationPhrases(code)}
              \cup {ConvertCall(Str(Negated(s, code)), NoOptions) :
                      s \in NegationPhrases(code)}
    /\ result = Pending

NextNegation == convert

SpecNegation == InitNegation /\ [][NextNegation]_vars

\* C5: negation. For every phrase s accepted by convert with convert(s) # 0
\* (cardinal, decimal or ordinal phrase),
\* convert(minusWord + " " + s) = -convert(s).
Negation ==
  \A s \in NegationPhrases(localeCode) :
    ( /\ call = ConvertCall(Str(Negated(s, localeCode)), NoOptions)
      /\ result.kind = "returns"
      /\ ConvertValue(s, converterOptions, parserConfig[1]) # Whole(0) )
    => result.value = Neg(ConvertValue(s, converterOptions, parserConfig[1]))

\* the same for the phrases that are no ordinal phrases: this part holds
NegationOfCardinals ==
  \A s \in NegationPhrases(localeCode) :
    ( /\ call = ConvertCall(Str(Negated(s, localeCode)), NoOptions)
      /\ result.kind = "returns"
      /\ ConvertValue(s, converterOptions, parserConfig[1]) # Whole(0)
      /\ parseOrdinalFromTokens(getTokens(s, parserConfig[1]),
                                parserConfig[1]) = <<>> )
    => result.value = Neg(ConvertValue(s, converterOptions, parserConfig[1]))

(***************************************************************************)
(* Ordinal phrases                                                         *)
(***************************************************************************)

\* every integer from 1 to this one is worded as an ordinal
MaxOrdinal == 120

\* the ordinal form of the word for v: a known ordinal word, or the cardinal
\* word plus the ordinal suffix
OrdinalWord(v, description) ==
  IF \E m \in SeqToSet(description.ordinalWordsMapping) : m.number = v
  THEN (CHOOSE m \in SeqToSet(description.ordinalWordsMapping) :
          m.number = v).value[1]
  ELSE SpelledWord(v, description) \o description.ordinalSuffix

\* the canonical cardinal wording of n with its last word replaced by that
\* word's ordinal form
OrdinalWording(n, description) ==
  LET values == ValuesFor(n)
  IN Join([i \in 1..Len(values) |->
             IF i < Len(values) THEN SpelledWord(values[i], description)
             ELSE OrdinalWord(values[i], description)], " ")

OrdinalNumbers == (1..MaxOrdinal) \cup {200, 1000, 1234, 1000000}

\* each ordinal wording with its integer
OrdinalWordings == {<<OrdinalWording(n, EnUS), n>> : n \in OrdinalNumbers}

InitOrdinal ==
  \E code \in EnglishLocales :
    /\ Construct(code, DefaultConverterOptions)
    /\ call \in {ConvertCall(Str(w[1]), NoOptions) : w \in OrdinalWordings}
    /\ result = Pending

NextOrdinal == convert

SpecOrdinal == InitOrdinal /\ [][NextOrdinal]_vars

\* C10: ordinal phrases convert to their number. For every n >= 1,
\* converting the canonical cardinal wording of n with its last word
\* replaced by that word's ordinal form returns n.
OrdinalPhrases ==
  \A w \in OrdinalWordings :
    (call.op = "convert" /\ call.words = Str(w[1]) /\ result # Pending)
    => result = Returns(Whole(w[2]))

\* the same for the wordings whose last word is no scale word, and for the
\* exact ordinal phrases: this part holds
OrdinalPhrasesNoScaleLast ==
  \A w \in OrdinalWordings :
    ( /\ call.op = "convert" /\ call.words = Str(w[1]) /\ result # Pending
      /\ \/ ValuesFor(w[2])[Len(ValuesFor(w[2]))] < 100
         \/ Len(ValuesFor(w[2])) = 1
         \/ MapHas(parserConfig[1].ordinalWordToNumber,
                   normalizeWord(w[1], FALSE)) )
    => result = Returns(Whole(w[2]))

(***************************************************************************)
(* The decimal part                                                        *)
(***************************************************************************)

\* most tokens after the decimal marker
MaxDecimalTokens == 3

\* the tokens after the marker are drawn from: digits, a tens word, a scale
\* word and an unknown word
DecimalVocabulary(code) ==
  IF code \in EnglishLocales
  THEN {"zero", "three", "six", "sixty", "hundred", "zzz"}
  ELSE {"sifuri", "tatu", "mbili", "ishirini", "mia", "zzz"}

\* the tokens before the marker
IntegerParts(code) ==
  IF code \in EnglishLocales
  THEN {<<>>, <<"zero">>, <<"one">>, <<"twenty", "one">>}
  ELSE {<<>>, <<"sifuri">>, <<"moja">>, <<"ishirini", "moja">>}

DecimalLocales == {"en-US", "en-XA", "sw-KE"}

DecimalTokenSequences(code) ==
  {int \o CompiledLocales[code].texts.point \o dec :
     int \in IntegerParts(code),
     dec \in SeqsUpTo(DecimalVocabulary(code), MaxDecimalTokens)}

InitDecimal ==
  \E code \in DecimalLocales :
    /\ Construct(code, DefaultConverterOptions)
    /\ call \in {TokensCall("parseNumberFromTokens", t) :
                   t \in DecimalTokenSequences(code)}
    /\ result = Pending

NextDecimal == callParseNumberFromTokens

SpecDecimal == InitDecimal /\ [][NextDecimal]_vars

\* the token maps to a single digit 0..9
IsDigitToken(token, config) ==
  /\ MapHas(config.wordToNumber, token)
  /\ MapGet(config.wordToNumber, token) \in 0..9

RECURSIVE DigitsNumber(_, _)
\* the number the digit tokens of dec, concatenated in order, write
DigitsNumber(dec, config) ==
  IF Len(dec) = 0 THEN 0
  ELSE LET front == DigitsNumber(SubSeq(dec, 1, Len(dec) - 1), config)
           last == dec[Len(dec)]
       IN IF IsDigitToken(last, config)
          THEN front * 10 + MapGet(config.wordToNumber, last)
          ELSE front

\* the number of decimal digits of v
DecimalLength(v) ==
  IF v = 0 THEN 1
  ELSE CHOOSE k \in 1..10 : Pow10(k - 1) <= v /\ v < 10 * Pow10(k - 1)

\* integerPart + value / 10^places as the decimal part rule gives them
DecimalRuleValue(integerPart, dec, config) ==
  LET digitTokens == SelectSeq(dec, LAMBDA t : IsDigitToken(t, config))
      firstIsZero == /\ MapHas(config.wordToNumber, dec[1])
                     /\ MapGet(config.wordToNumber, dec[1]) = 0
      v == parseIntegerTokens(dec, config)
  IN IF firstIsZero \/ Len(digitTokens) = Len(dec)
     THEN Num(integerPart * Pow10(Len(digitTokens)) + DigitsNumber(dec, config),
              Pow10(Len(digitTokens)))
     ELSE Num(integerPart * Pow10(DecimalLength(v)) + v, Pow10(DecimalLength(v)))

\* C6: decimal part rule. For the tokens after the decimal-point marker, if
\* the first token maps to 0 or every token maps to a single digit 0-9, the
\* fraction is the digits concatenated in order with place count equal to
\* the number of digit tokens (leading zeros kept); otherwise the tokens are
\* parsed as an integer phrase of value v and the place count is the number
\* of decimal digits of v; the result is integerPart + value / 10^places.
DecimalPartRule ==
  (call.op = "parseNumberFromTokens" /\ result.kind = "returns") =>
    LET t == call.tokens
        config == parserConfig[1]
    IN \A k \in 1..(Len(t) - 1) :
         ( /\ t[k] \in SeqToSet(config.texts.point)
           /\ \A j \in 1..(k - 1) : t[j] \notin SeqToSet(config.texts.point)
           /\ t[1] \notin SeqToSet(config.texts.minus) )
         => result.value =
              DecimalRuleValue(parseIntegerTokens(SubSeq(t, 1, k - 1), config),
                               SubSeq(t, k + 1, Len(t)), config)

\* "zero point zero six three" is 0.063
DecimalPartRuleWitness ==
  /\ call = TokensCall("parseNumberFromTokens",
                       <<"zero", "point", "zero", "six", "three">>)
  /\ result = Returns(Num(63, 1000))

(***************************************************************************)
(* Currency amounts                                                        *)
(***************************************************************************)

CurrencyLocales == {"en-US", "sw-KE", "it-IT"}

\* the amounts worded, before the main unit and before the fractional unit
MainAmountPhrases(code) ==
  CASE code = "en-US" -> {"Fifty Two", "One", "Two Thousand One Hundred", "Zero"}
    [] code = "sw-KE" -> {"Ishirini", "Moja", "Elfu Mbili", "Mia Moja"}
    [] code = "it-IT" -> {"Venti Due", "Uno", "Duemila Cento", "Milioni"}
FractionalAmountPhrases(code) ==
  CASE code = "en-US" -> {"Thirty", "One", "Ninety Nine", "One Hundred Five"}
    [] code = "sw-KE" -> {"Kumi", "Moja", "Ishirini Tatu"}
    [] code = "it-IT" -> {"Dieci", "Uno", "Venti Tre"}

\* the forms of a unit the description gives
UnitForms(unit) == {unit.name, unit.plural, unit.singular} \ {""}

\* nothing, or the conjunction of the description followed by a space
Conjunctions(description) ==
  {""} \cup (IF description.texts.and = "" THEN {}
             ELSE {description.texts.and \o " "})

\* '<A> <mainUnit> <and> <B> <fractionalUnit>'
CurrencyText(A, mainUnit, conjunction, B, fractionalUnit) ==
  A \o " " \o mainUnit \o " " \o conjunction \o B \o " " \o fractionalUnit

\* the texts of that shape with their amount phrases
CurrencyTexts(code) ==
  {<<CurrencyText(A, U, c, B, F), A, B>> :
     A \in MainAmountPhrases(code),
     U \in UnitForms(LOCALES[code].currency),
     c \in Conjunctions(LOCALES[code]),
     B \in FractionalAmountPhrases(code),
     F \in UnitForms(LOCALES[code].currency.fractionalUnit)}

InitCurrency ==
  \E code \in CurrencyLocales :
    /\ Construct(code, DefaultConverterOptions)
    /\ call \in {ParseCall(Str(t[1]), CurrencyMode) : t \in CurrencyTexts(code)}
    /\ result = Pending

NextCurrency == parse

SpecCurrency == InitCurrency /\ [][NextCurrency]_vars

\* parseInteger of a phrase
IntegerOf(phrase, config) ==
  parseIntegerTokens(getTokens(phrase, config), config)

\* C7: currency combination. In currency mode, for input
\* '<A> <mainUnit> <and> <B> <fractionalUnit>' (conjunction optional), parse
\* returns mainAmount = parseInteger(A), fractionalAmount = parseInteger(B),
\* value = mainAmount + fractionalAmount / 100 and isCurrency = true.
CurrencyCombination ==
  \A t \in CurrencyTexts(localeCode) :
    (call = ParseCall(Str(t[1]), CurrencyMode) /\ result # Pending) =>
      /\ result.kind = "returns"
      /\ result.value.currencyInfo =
           CurrencyInfo(IntegerOf(t[2], parserConfig[1]),
                        IntegerOf(t[3], parserConfig[1]))
      /\ result.value.value =
           Num(IntegerOf(t[2], parserConfig[1]) * 100
                 + IntegerOf(t[3], parserConfig[1]), 100)
      /\ result.value.isCurrency

\* 'Fifty Two Dollars And Thirty Cents' gives 52.30, 52 and 30
CurrencyCombinationWitness ==
  /\ call = ParseCall(Str("Fifty Two Dollars And Thirty Cents"), CurrencyMode)
  /\ result.kind = "returns"
  /\ result.value.value = Num(5230, 100)
  /\ result.value.currencyInfo = CurrencyInfo(52, 30)
  /\ result.value.isCurrency

(***************************************************************************)
(* Ordinal resolution order                                                *)
(***************************************************************************)

\* most tokens of a phrase given to parse
MaxOrdinalTokens == 3

\* cardinal words, ordinal words, a word with the ordinal suffix, the
\* negation word and a word no grammar knows
OrdinalVocabulary ==
  {"one", "twenty", "hundred", "first", "third", "hundredth", "minus", "zzz"}

OrdinalOrderPhrases ==
  {Join(t, " ") : t \in SeqsUpTo(OrdinalVocabulary, MaxOrdinalTokens) \ {<<>>}}

InitOrdinalOrder ==
  \E code \in EnglishLocales :
    /\ Construct(code, DefaultConverterOptions)
    /\ call \in {ParseCall(Str(p), NoOptions) : p \in OrdinalOrderPhrases}
    /\ result = Pending

NextOrdinalOrder == parse

SpecOrdinalOrder == InitOrdinalOrder /\ [][NextOrdinalOrder]_vars

\* the last token of t without the ordinal suffix
StrippedLast(t, config) ==
  Slice(t[Len(t)], 0, Len(t[Len(t)]) - Len(config.ordinalSuffix))

\* (a): the whole short phrase is an entry of the ordinal map
IsOrdinalPhrase(t, config) ==
  Len(t) <= 4 /\ MapHas(config.ordinalWordToNumber, Join(t, " "))
\* (b): the last token is a known ordinal word
EndsInOrdinalWord(t, config) ==
  MapHas(config.ordinalWordToNumber, t[Len(t)])
\* (c): the last token ends with the ordinal suffix and the stripped prefix
\* is a known cardinal word
EndsInSuffixedCardinal(t, config) ==
  /\ config.ordinalSuffix # ""
  /\ EndsWith(t[Len(t)], config.ordinalSuffix)
  /\ MapHas(config.wordToNumber, StrippedLast(t, config))

\* parseInteger of the tokens before the last one
BeforeLast(t, config) == parseIntegerTokens(SubSeq(t, 1, Len(t) - 1), config)

\* what the rules (a)-(c) give for the tokens t, <<>> when none applies
OrdinalByRules(t, config) ==
  IF Len(t) = 0 THEN <<>>
  ELSE IF IsOrdinalPhrase(t, config)
  THEN <<MapGet(config.ordinalWordToNumber, Join(t, " "))>>
  ELSE IF EndsInOrdinalWord(t, config)
  THEN <<MapGet(config.ordinalWordToNumber, t[Len(t)]) + BeforeLast(t, config)>>
  ELSE IF EndsInSuffixedCardinal(t, config)
  THEN <<MapGet(config.wordToNumber, StrippedLast(t, config))
           + BeforeLast(t, config)>>
  ELSE <<>>

\* parse reports what the rules give for t: the ordinal with isOrdinal
\* true, or the cardinal with isOrdinal absent
ReportsByRules(t, config) ==
  IF OrdinalByRules(t, config) # <<>>
  THEN /\ result.value.value = Whole(OrdinalByRules(t, config)[1])
       /\ result.value.isOrdinal
  ELSE /\ result.value.value = parseNumberFromTokens(t, config)
       /\ ~result.value.isOrdinal

\* parse has returned for a phrase, outside currency mode
ParsedPhrase ==
  /\ call.op = "parse"
  /\ call.options = NoOptions
  /\ result # Pending
  /\ result.kind = "returns"

\* C11 as stated: ordinal resolution order, for every token sequence. (a) a
\* whole short phrase that is an entry of the ordinal map gives its value;
\* (b) else a last token that is a known ordinal word, or (c) one that ends
\* with the ordinal suffix on a known cardinal word, gives that value plus
\* parseInteger of the tokens before it; parse then reports isOrdinal, and
\* when none applies the phrase is parsed as a cardinal, isOrdinal absent.
OrdinalResolutionEverySequence ==
  ParsedPhrase =>
    ReportsByRules(getTokens(call.words.text, parserConfig[1]), parserConfig[1])

\* the tokens begin with the negation marker
BeginsWithMinus(t, config) ==
  Len(t) > 0 /\ t[1] \in SeqToSet(config.texts.minus)

\* C11: ordinal resolution order, for every token sequence that does not
\* begin with the negation marker: rules (a)-(c) as above give the result
\* and isOrdinal = true, and when none applies the phrase is parsed as a
\* cardinal and isOrdinal is absent.
OrdinalResolution ==
  ( /\ ParsedPhrase
    /\ ~BeginsWithMinus(getTokens(call.words.text, parserConfig[1]),
                        parserConfig[1]) )
  => ReportsByRules(getTokens(call.words.text, parserConfig[1]),
                    parserConfig[1])

\* "one hundredth" is an entry of the ordinal map: 100 outright, where the
\* suffix rule alone would give 1 + 100
OrdinalResolutionWitness ==
  /\ ParsedPhrase
  /\ call.words = Str("one hundredth")
  /\ IsOrdinalPhrase(<<"one", "hundredth">>, parserConfig[1])
  /\ EndsInSuffixedCardinal(<<"one", "hundredth">>, parserConfig[1])
  /\ result.value.value = Whole(100)
  /\ result.value.isOrdinal

(***************************************************************************)
(* Case insensitivity                                                      *)
(***************************************************************************)

\* phrases as the grammar description spells them, and in mixed case
CasePhrases(code) ==
  CASE code = "en-US" ->
         {"Twenty One", "One Hundred Twenty Three", "tWENTY oNE", "Zero",
          "Two Thousand And One", "Minus Five", "Two Point Five", "Third",
          "Ten Dollars", "Five Dollars And Ten Cents", "Fifty Cents Only"}
    [] code = "sw-KE" ->
         {"Mia Moja", "Elfu Mbili", "Ishirini", "mIA tATU", "Hasi Tatu",
          "Kumi Nukta Tatu", "Shilingi Kumi", "Kumi Shilingi Tatu Senti"}
    [] code = "az-AZ" ->
         {"Q1rx Bir", "On Bir", "Min Doxsan", "Bir Milyon", "Yeddi",
          "M2nfi Yeddi", "Otuz N4qt2 Bir", "Otuz Manat", "oN bIR",
          "Q1rx Manat Otuz Q2pik"}

CaseLocales == {"en-US", "sw-KE", "az-AZ"}

\* s, upper(s) and lower(s)
CaseVariants(s) == {s, ToUpperCase(s), ToLowerCase(s)}

InitCase ==
  \E code \in CaseLocales :
    /\ Construct(code, DefaultConverterOptions)
    /\ call \in {ConvertCall(Str(v), o) :
                   v \in UNION {CaseVariants(s) : s \in CasePhrases(code)},
                   o \in {NoOptions, CurrencyMode}}
    /\ result = Pending

NextCase == convert

SpecCase == InitCase /\ [][NextCase]_vars

\* convert has returned for a text
ConvertedText ==
  /\ call.op = "convert"
  /\ call.words.type = "string"
  /\ result # Pending
  /\ result.kind = "returns"

\* what convert gives for the text s with the options and the grammar of
\* the call that has returned
SameCall(s) ==
  ConvertValue(s, MergedOptions(call.options), parserConfig[1])

\* C12: case insensitivity. For every input s and every case-insensitive
\* grammar (the adapter compiles every grammar as case-insensitive),
\* convert(s) = convert(upper(s)) = convert(lower(s)), in plain mode and in
\* currency mode.
CaseInsensitivity ==
  ConvertedText =>
    /\ SameCall(ToUpperCase(call.words.text)) = result.value
    /\ SameCall(ToLowerCase(call.words.text)) = result.value

\* the letters of s are ones whose capital has s's letter as its small
\* letter and the other way round
RoundTripLetters(s) ==
  /\ ToLowerCase(ToUpperCase(s)) = ToLowerCase(s)
  /\ ToUpperCase(ToLowerCase(s)) = ToUpperCase(s)

\* the same for the texts made of such letters: this part holds
CaseInsensitivityRoundTripLetters ==
  (ConvertedText /\ RoundTripLetters(call.words.text)) =>
    /\ SameCall(ToUpperCase(call.words.text)) = result.value
    /\ SameCall(ToLowerCase(call.words.text)) = result.value

\* lowering the text never changes the result: this part holds too
CaseInsensitivityLower ==
  ConvertedText => SameCall(ToLowerCase(call.words.text)) = result.value

(***************************************************************************)
(* Cleaning                                                                *)
(***************************************************************************)

\* longest text given to cleanInput
MaxCleanChars == 4

\* a letter, a space, a tab, a newline, a period and a comma
CleanAlphabet == {"a", " ", "\t", "\n", ".", ","}

RECURSIVE CleanTexts(_)
\* the texts over CleanAlphabet of length at most n
CleanTexts(n) ==
  IF n = 0 THEN {""}
  ELSE CleanTexts(n - 1) \cup {s \o c : s \in CleanTexts(n - 1), c \in CleanAlphabet}

InitClean ==
  /\ Construct("en-US", DefaultConverterOptions)
  /\ call \in {CleanInputCall(s) : s \in CleanTexts(MaxCleanChars)}
  /\ result = Pending

NextClean == callCleanInput

SpecClean == InitClean /\ [][NextClean]_vars

\* cleanInput has returned
Cleaned == call.op = "cleanInput" /\ result # Pending

\* C13: cleaning idempotence. For every text s (any mix of words, spaces,
\* tabs, newlines, periods and commas),
\* cleanInput(cleanInput(s)) = cleanInput(s).
CleaningIdempotence ==
  Cleaned => cleanInput(result.value) = result.value

\* the same for the texts without a period or comma: this part holds
CleaningIdempotenceNoPunctuation ==
  (Cleaned /\ ~Includes(call.input, ".") /\ ~Includes(call.input, ","))
  => cleanInput(result.value) = result.value

(***************************************************************************)
(* Input that is blank after cleaning                                      *)
(***************************************************************************)

InitBlank ==
  /\ Construct("en-US", DefaultConverterOptions)
  /\ call \in {ConvertCall(Str(s), NoOptions) : s \in CleanTexts(MaxCleanChars)}
              \cup {ParseCall(Str(s), NoOptions) : s \in CleanTexts(MaxCleanChars)}
  /\ result = Pending

NextBlank == convert \/ parse

SpecBlank == InitBlank /\ [][NextBlank]_vars

\* convert or parse has ended for a text whose cleaned form is empty
BlankAfterCleaning ==
  /\ Converted
  /\ call.words.type = "string"
  /\ cleanInput(call.words.text) = ""

\* C14: blank-after-cleaning input is rejected. For every text s whose
\* cleaned form cleanInput(s) is empty (such as "." or " , "), convert(s) and
\* parse(s) throw Invalid Input and never return a number.
BlankAfterCleaningThrows ==
  BlankAfterCleaning => result = Throws("Invalid Input")

\* the same for the texts made only of spaces, tabs and newlines: this part
\* holds
BlankThrows ==
  (BlankAfterCleaning /\ ~HasNonSpace(call.words.text, 0))
  => result = Throws("Invalid Input")

(***************************************************************************)
(* Currency precision                                                      *)
(***************************************************************************)

\* greatest fractionalPrecision passed by a call
MaxPrecision == 3

\* currency mode with no precision, and with each precision
PrecisionOptions ==
  {CurrencyMode} \cup {WithPrecision(CurrencyMode, p) : p \in 0..MaxPrecision}

InitPrecision ==
  /\ Construct("en-US", DefaultConverterOptions)
  /\ call \in {ParseCall(Str(t[1]), o) :
                 t \in CurrencyTexts("en-US"), o \in PrecisionOptions}
              \cup {ConvertCall(Str(t[1]), o) :
                      t \in CurrencyTexts("en-US"), o \in PrecisionOptions}
  /\ result = Pending

NextPrecision == convert \/ parse

SpecPrecision == InitPrecision /\ [][NextPrecision]_vars

\* convert or parse has returned in currency mode
ConvertedCurrency ==
  /\ Converted
  /\ result.kind = "returns"
  /\ IsCurrencyMode(MergedOptions(call.options))

\* the precision the call asks for, 2 when it gives none
PrecisionOf(options) ==
  IF options.fractionalPrecision = <<>> THEN 2
  ELSE options.fractionalPrecision[1]

\* the amounts parse finds in the text of the call
AmountsOfCall ==
  ParseValue(call.words.text, MergedOptions(call.options),
             parserConfig[1]).currencyInfo[1]

\* the number convert or parse returned
ReturnedNumber ==
  IF call.op = "parse" THEN result.value.value ELSE result.value

\* C15: currency precision option. In currency mode the value is
\* mainAmount + fractionalAmount / 10^precision, precision a per-call option
\* that defaults to 2: for every precision p passed the divisor is 10^p.
CurrencyPrecision ==
  ConvertedCurrency =>
    ReturnedNumber =
      Num(AmountsOfCall.mainAmount * Pow10(PrecisionOf(call.options))
            + AmountsOfCall.fractionalAmount,
          Pow10(PrecisionOf(call.options)))

\* the same for the calls that pass no precision, or 2: this part holds
CurrencyPrecisionDefault ==
  (ConvertedCurrency /\ PrecisionOf(call.options) = 2) =>
    ReturnedNumber =
      Num(AmountsOfCall.mainAmount * 100 + AmountsOfCall.fractionalAmount, 100)

(***************************************************************************)
(* Currency amounts when at most one kind of unit is found                 *)
(***************************************************************************)

PartitionLocales == {"en-US", "sw-KE"}

\* the amounts worded
PartitionAmounts(code) ==
  CASE code = "en-US" -> {"Thirty Six", "One", "Two Thousand One Hundred",
                          "Zero", "Four Hundred And Fifty Two"}
    [] code = "sw-KE" -> {"Ishirini Tatu", "Moja", "Elfu Mbili", "Mia Moja"}

\* what follows the amount: nothing, or a space and a form of one unit
PartitionUnits(description) ==
  {""} \cup {" " \o u : u \in UnitForms(description.currency)
                          \cup UnitForms(description.currency.fractionalUnit)}

\* what follows the unit: nothing, one more number word, the "only" word
PartitionTails(description) ==
  {"", " " \o description.numberWordsMapping[
                Len(description.numberWordsMapping) - 1].value[1],
   " " \o description.texts.only}

\* [minus] amount [unit] [number word | only]
PartitionTexts(code) ==
  {head \o A \o U \o tail :
     head \in {"", LOCALES[code].texts.minus \o " "},
     A \in PartitionAmounts(code),
     U \in PartitionUnits(LOCALES[code]),
     tail \in PartitionTails(LOCALES[code])}

InitPartition ==
  \E code \in PartitionLocales :
    /\ Construct(code, DefaultConverterOptions)
    /\ call \in {ParseCall(Str(t), CurrencyMode) : t \in PartitionTexts(code)}
    /\ result = Pending

NextPartition == parse

SpecPartition == InitPartition /\ [][NextPartition]_vars

\* the tokens without a leading negation token and a trailing "only" token
AmountRange(t, config) ==
  LET from == IF Len(t) > 0 /\ t[1] \in SeqToSet(config.texts.minus)
              THEN 2 ELSE 1
      to == IF Len(t) >= from /\ t[Len(t)] \in SeqToSet(config.texts.only)
            THEN Len(t) - 1 ELSE Len(t)
  IN SubSeq(t, from, to)

\* the positions in r of the words of units (units of one word)
UnitPositions(r, units) == {i \in 1..Len(r) : r[i] \in SeqToSet(units)}

\* the tokens of r before its first token at one of the positions
BeforeFirst(r, positions) ==
  SubSeq(r, 1, (CHOOSE i \in positions : \A j \in positions : i <= j) - 1)

\* the amounts the partition gives for the range r, the units of the
\* grammar being mainUnit and fractionalUnit; <<>> when both kinds are found
PartitionOf(r, mainUnit, fractionalUnit, config) ==
  LET mainAt == UnitPositions(r, mainUnit)
      fractionalAt == UnitPositions(r, fractionalUnit)
  IN IF mainAt = {} /\ fractionalAt = {}
     THEN CurrencyInfo(parseIntegerTokens(r, config), 0)
     ELSE IF fractionalAt = {}
     THEN CurrencyInfo(parseIntegerTokens(BeforeFirst(r, mainAt), config), 0)
     ELSE IF mainAt = {}
     THEN CurrencyInfo(0, parseIntegerTokens(BeforeFirst(r, fractionalAt), config))
     ELSE <<>>

\* parse has returned in currency mode; its tokens and the partition of them
ParsedCurrency ==
  /\ call.op = "parse"
  /\ result # Pending
  /\ result.kind = "returns"
  /\ IsCurrencyMode(MergedOptions(call.options))

PartitionOfCall ==
  PartitionOf(AmountRange(getTokens(call.words.text, parserConfig[1]),
                          parserConfig[1]),
              parserConfig[1].currency.mainUnit,
              parserConfig[1].currency.fractionalUnit, parserConfig[1])

\* C16: currency partition when at most one unit kind is found. In currency
\* mode, after dropping a leading negation token and a trailing "only"
\* token, (i) no unit word found: mainAmount = parseInteger(whole range),
\* fractionalAmount = 0; (ii) only a main unit found: mainAmount =
\* parseInteger(tokens before it), fractionalAmount = 0; (iii) only a
\* fractional unit found: mainAmount = 0, fractionalAmount =
\* parseInteger(tokens before it) and value = fractionalAmount / 100 (with
\* the sign of the dropped negation token).
CurrencyPartition ==
  (ParsedCurrency /\ PartitionOfCall # <<>>) =>
    /\ result.value.currencyInfo = PartitionOfCall
    /\ PartitionOfCall[1].mainAmount = 0 =>
         result.value.value =
           Signed(Num(PartitionOfCall[1].fractionalAmount, 100),
                  result.value.isNegative)

\* "Thirty Six Cents Only" is 0.36: no main amount, 36 of the fractional unit
CurrencyPartitionWitness ==
  /\ ParsedCurrency
  /\ call.words = Str("Thirty Six Cents Only")
  /\ PartitionOfCall = CurrencyInfo(0, 36)
  /\ result.value.currencyInfo = CurrencyInfo(0, 36)
  /\ result.value.value = Num(36, 100)


(***************************************************************************)
(* Noise tolerance of the integer parser                                   *)
(***************************************************************************)

\* a token that is neither a word of the vocabulary nor a marker
Unrecognized(token, config) ==
  /\ ~MapHas(config.wordToNumber, token)
  /\ token \notin SeqToSet(config.texts.and) \cup SeqToSet(config.texts.minus)
  /\ token \notin SeqToSet(config.texts.point) \cup SeqToSet(config.texts.only)

\* tokens without the one at position k (1-based)
Without(tokens, k) == SubSeq(tokens, 1, k - 1) \o SubSeq(tokens, k + 1, Len(tokens))

\* the parsed sequence is some t with an unrecognized token inserted, and
\* the value returned is that of t, wherever the token was inserted
SameAsWithoutNoise ==
  \A k \in 1..Len(call.tokens) :
    Unrecognized(call.tokens[k], parserConfig[1])
      => /\ result.kind = "returns"
         /\ result.value = parseIntegerTokens(Without(call.tokens, k), parserConfig[1])

\* the grammar has a rule that looks at how many tokens stand beside a
\* scale word: the "<scale> <one>" postfix or an implied dual
CountsTokensBesideScale(config) ==
  config.usesPostfixOne \/ config.impliedDualWords # {}

NoiseToleranceNoScale ==
  (/\ ParsedInteger
   /\ \A i \in 1..Len(call.tokens) : ~IsScaleToken(call.tokens[i], parserConfig[1]))
    => SameAsWithoutNoise


(***************************************************************************)
(* Termination of the tokenizers and of the integer parser                 *)
(***************************************************************************)

\* most pieces a text is made of, and most tokens of a parsed sequence
MaxPieces == 3
MaxCallTokens == 3

\* the grammars the calls are made with
TerminationLocales == {"sw-KE", "sw-XD", "az-AZ"}

\* the pieces the texts of a grammar are made of: a word or a phrase of two
\* words, white space, a hyphen and a letter no word begins with
TextPieces(code) ==
  CASE code = "sw-KE" -> {"mia", " ", "-", "z"}
    [] code = "az-AZ" -> {"on yeddi", " ", "z"}
    [] OTHER -> {}

\* the tokens of the sequences of a grammar: the first two grammars have no
\* conjunction word, so that their integers are parsed by
\* parseWithParallelScales
CallTokens(code) ==
  IF code \in {"sw-KE", "sw-XD"} THEN {"moja", "mia", "milioni", "zzz"} ELSE {}

RECURSIVE PieceTexts(_, _)
\* the texts of at most n pieces
PieceTexts(pieces, n) ==
  IF n = 0 \/ pieces = {} THEN {""}
  ELSE PieceTexts(pieces, n - 1)
         \cup {t \o p : t \in PieceTexts(pieces, n - 1), p \in pieces}

\* the calls made with a grammar: both tokenizers on every text, and the
\* integer parser on every token sequence
TerminationCalls(code) ==
  {[op |-> "tokenizeWithPhrases", text |-> t] :
     t \in PieceTexts(TextPieces(code), MaxPieces)}
  \cup {[op |-> "tokenizeConcatenated", text |-> t] :
          t \in PieceTexts(TextPieces(code), MaxPieces)}
  \cup {[op |-> "parseWithParallelScales", tokens |-> t] :
          t \in {u \in SeqsUpTo(CallTokens(code), MaxCallTokens) :
                   WithinModelRange(u, CompiledLocales[code])}}

\* an instance whose grammar is compiled, and a call that has not begun
InitTermination ==
  \E code \in TerminationLocales :
    /\ localeCode = code
    /\ converterOptions = DefaultConverterOptions
    /\ localeClass = <<>>
    /\ locale = <<code>>
    /\ parserConfig = <<CompiledLocales[code]>>
    /\ call \in TerminationCalls(code)
    /\ result = Pending

NextTermination ==
  \/ tokenizeWithPhrasesStep
  \/ tokenizeConcatenatedStep
  \/ parseWithParallelScalesStep

\* a call that has begun keeps running: nothing else runs meanwhile
SpecTermination ==
  InitTermination /\ [][NextTermination]_vars /\ WF_vars(NextTermination)

\* this step is an iteration of a loop or a call of the parser
Iterates == result.kind = "running" /\ result'.kind = "running"

\* an iteration of the space-delimited tokenizer moves the position forward
PhrasesAdvance ==
  (call.op = "tokenizeWithPhrases" /\ Iterates)
    => /\ result'.pos > result.pos
       /\ result'.pos <= Len(call.text)

\* an iteration of the concatenated tokenizer shortens what remains
ConcatenatedAdvance ==
  (call.op = "tokenizeConcatenated" /\ Iterates)
    => Len(result'.remaining) < Len(result.remaining)

\* this step is a call of the parser by the call on top of the stack
CallsItself ==
  /\ call.op = "parseWithParallelScales"
  /\ Iterates
  /\ Len(result'.stack) > Len(result.stack)

\* every call the parser makes of itself is on a range within the range
\* of its caller and shorter than it
ParserShrinks ==
  CallsItself
    => /\ Head(result.stack).start <= Head(result'.stack).start
       /\ Head(result'.stack).end <= Head(result.stack).end
       /\ Head(result'.stack).end - Head(result'.stack).start
            < Head(result.stack).end - Head(result.stack).start

\* the iterations done, the calls made and the depth of the calls do not
\* exceed the length of the input (one call on the empty sequence)
StepsBounded ==
  result.kind = "running" =>
    CASE call.op = "tokenizeWithPhrases" ->
           /\ result.iterations <= result.pos
           /\ result.pos <= Len(call.text)
      [] call.op = "tokenizeConcatenated" ->
           result.iterations + Len(result.remaining) <= Len(call.text)
      [] call.op = "parseWithParallelScales" ->
           /\ Len(result.stack) <= result.made
           /\ result.made <= IF Len(call.tokens) = 0 THEN 1 ELSE Len(call.tokens)

NoEmptyWord ==
  parserConfig # <<>> =>
    \A i \in 1..Len(parserConfig[1].sortedConcatenatedWords) :
      Len(parserConfig[1].sortedConcatenatedWords[i]) > 0

\* the steps compute what the functions return
StepsReturnValue ==
  result.kind = "returns" =>
    CASE call.op = "tokenizeWithPhrases" ->
           result.value = tokenizeWithPhrases(call.text, parserConfig[1].wordToNumber,
                                              parserConfig[1].multiWordPhrases)
      [] call.op = "tokenizeConcatenated" ->
           result.value = tokenizeConcatenatedFrom(call.text,
                            parserConfig[1].sortedConcatenatedWords)
      [] call.op = "parseWithParallelScales" ->
           result.value = parseIntegerTokens(call.tokens, parserConfig[1])
      [] OTHER -> TRUE

\* the phrase "on yeddi" is taken in one iteration and "z" in the next
PhraseIterationReached ==
  /\ call = [op |-> "tokenizeWithPhrases", text |-> "on yeddi z"]
  /\ result.kind = "running"
  /\ result.iterations = 2
  /\ result.pos = 10
  /\ result.tokens = <<"on yeddi", "z">>

\* a character no word begins with is skipped in an iteration of its own
SkipIterationReached ==
  /\ call = [op |-> "tokenizeConcatenated", text |-> "miazmia"]
  /\ result.kind = "running"
  /\ result.iterations = 3
  /\ result.tokens = <<"mia", "mia">>


(***************************************************************************)
(* A decimal marker that is also the conjunction word                      *)
(***************************************************************************)

\* longest phrase converted
MaxMarkerTokens == 4

\* the words of the phrases: digits, a scale word, the word that is both
\* markers, and the negation marker
MarkerVocabulary == {"one", "three", "hundred", "and", "minus"}

\* an instance of the grammar whose markers are the same word, and a call
\* of convert or parse on a phrase
InitMarker ==
  /\ Construct("en-XP", DefaultConverterOptions)
  /\ call \in {ConvertCall(Str(Join(t, " ")), NoOptions) :
                 t \in SeqsUpTo(MarkerVocabulary, MaxMarkerTokens)}
          \cup {ParseCall(Str(Join(t, " ")), NoOptions) :
                  t \in SeqsUpTo(MarkerVocabulary, MaxMarkerTokens)}
  /\ result = Pending

NextMarker == convert \/ parse

SpecMarker == InitMarker /\ [][NextMarker]_vars

\* the conjunction word and the decimal marker of the grammar are one word
SameMarker(config) ==
  /\ Len(config.texts.point) > 0
  /\ Len(config.texts.and) > 0
  /\ config.texts.point[1] = config.texts.and[1]

\* the tokens without that word
MarkerDropped(tokens, config) ==
  SelectSeq(tokens, LAMBDA t : t # config.texts.and[1])

\* parseInteger of the tokens with the marker dropped, as the number of
\* the phrase: the tokens after a leading negation marker, with its sign
IntegerOfPhrase(tokens, config) ==
  IF tokens # <<>> /\ tokens[1] \in SeqToSet(config.texts.minus)
  THEN Neg(Whole(parseIntegerTokens(MarkerDropped(Tail(tokens), config), config)))
  ELSE Whole(parseIntegerTokens(MarkerDropped(tokens, config), config))

\* the number a call of convert or parse gave
PlainNumber == IF call.op = "convert" THEN result.value ELSE result.value.value

\* C19: in a grammar whose conjunction marker and decimal-point marker are
\* the same word, the plain number of every phrase is parseInteger of its
\* tokens with that marker dropped (the sign of a leading negation marker
\* apart), so no fractional part is produced
AmbiguousMarker ==
  (/\ call.op \in {"convert", "parse"}
   /\ result.kind = "returns"
   /\ SameMarker(parserConfig[1]))
    => /\ PlainNumber
            = IntegerOfPhrase(getTokens(call.words.text, parserConfig[1]),
                              parserConfig[1])
       /\ PlainNumber.den = 1

\* "one and three" is 4, not 1.3
AmbiguousMarkerWitness ==
  /\ call = ConvertCall(Str("one and three"), NoOptions)
  /\ result.kind = "returns"
  /\ SameMarker(parserConfig[1])
  /\ FirstPoint(<<"one", "and", "three">>, 0, 3, parserConfig[1]) = 1
  /\ result.value = Whole(4)


(***************************************************************************)
(* Per-call options and the instance defaults                              *)
(***************************************************************************)

\* two custom currencies (CurrencyOptions), none of a word of English
EuroOptions ==
  [name |-> "Euro", plural |-> "Euros", singular |-> "",
   fractionalUnit |-> [name |-> "Centime", plural |-> "Centimes",
                       singular |-> ""]]
RupeeOptions ==
  [name |-> "Rupee", plural |-> "Rupees", singular |-> "",
   fractionalUnit |-> [name |-> "Paisa", plural |-> "Paise",
                       singular |-> ""]]

\* the converterOptions given to the constructor
InstanceDefaults ==
  {DefaultConverterOptions, CurrencyMode, Options(<<>>, <<EuroOptions>>),
   Options(<<FALSE>>, <<EuroOptions>>), Options(<<TRUE>>, <<EuroOptions>>)}

\* the options given to a call
CallOptions ==
  {NoOptions, CurrencyMode, Options(<<FALSE>>, <<>>),
   Options(<<>>, <<RupeeOptions>>), Options(<<TRUE>>, <<RupeeOptions>>),
   WithPrecision(NoOptions, 1)}

\* texts whose value depends on the mode and on the currency words known
OptionTexts ==
  {"Two Dollars Three Cents", "Two Euros Three Centimes",
   "Two Rupees Three Paise", "Twenty"}

OptionCalls ==
  {ConvertCall(Str(t), o) : t \in OptionTexts, o \in CallOptions}
    \cup {ParseCall(Str(t), o) : t \in OptionTexts, o \in CallOptions}

InitOptions ==
  /\ \E defaults \in InstanceDefaults : Construct("en-US", defaults)
  /\ Idle

NextOptions ==
  \/ \E c \in OptionCalls : Invoke(c)
  \/ convert
  \/ parse

SpecOptions == InitOptions /\ [][NextOptions]_vars

\* the options of a call, name by name: the one given to the call, else
\* the instance default of that name
Overridden(defaults, options) ==
  [name \in DOMAIN defaults |->
     IF options[name] # <<>> THEN options[name] ELSE defaults[name]]

\* what a call returns under the options in force
UnderOptions(options) ==
  Returns(ValueOf(call.op, call.words.text, options,
                  CompiledLocales[localeCode]))

\* C20: per-call options are merged with the instance defaults for that
\* call only. No step changes the instance defaults, and every call of
\* convert or parse returns what its text gives under the options taken
\* name by name from the call when given there and from the instance
\* defaults otherwise; a call without options thus returns what the
\* defaults give, whatever calls came before it.
PerCallOptions ==
  /\ [][converterOptions' = converterOptions]_vars
  /\ [](Converted =>
          result = UnderOptions(Overridden(converterOptions, call.options)))
  /\ []((Converted /\ call.options = NoOptions) =>
          result = UnderOptions(converterOptions))

\* the instance has the currency words of the Euro as default but not the
\* mode; the call gives only currency: true and gets 2.03
PerCallOptionsWitness ==
  /\ converterOptions = Options(<<FALSE>>, <<EuroOptions>>)
  /\ call = ConvertCall(Str("Two Euros Three Centimes"), CurrencyMode)
  /\ result = Returns(Num(203, 100))

\* a call gives its own currency words: those of the instance are not in
\* force in it
CallWordsOverrideReached ==
  /\ converterOptions = Options(<<TRUE>>, <<EuroOptions>>)
  /\ call = ConvertCall(Str("Two Euros Three Centimes"),
                        Options(<<>>, <<RupeeOptions>>))
  /\ result = Returns(Whole(5))

\* a call turns the currency mode of the instance off
CallModeOffReached ==
  /\ converterOptions = Options(<<TRUE>>, <<EuroOptions>>)
  /\ call = ConvertCall(Str("Two Euros Three Centimes"),
                        Options(<<FALSE>>, <<>>))
  /\ result = Returns(Whole(5))


(***************************************************************************)
(* The space-delimited tokenizer: words with hyphens                       *)
(***************************************************************************)

\* longest text given to tokenize
MaxTokenizeChars == 5

\* two letters, a capital, a hyphen and a space
HyphenAlphabet == {"a", "b", "A", "-", " "}

RECURSIVE HyphenTexts(_)
\* the texts over HyphenAlphabet of length at most n
HyphenTexts(n) ==
  IF n = 0 THEN {""}
  ELSE HyphenTexts(n - 1)
         \cup {s \o c : s \in HyphenTexts(n - 1), c \in HyphenAlphabet}

\* vocabularies of single words, with and without hyphens in them
HyphenWordMaps ==
  { << <<"a-b", 21>>, <<"a", 1>> >>,
    << <<"b", 2>> >>,
    << <<"a-", 3>>, <<"-", 4>>, <<"b-a-b", 5>> >> }

InitHyphen ==
  /\ Construct("en-US", DefaultConverterOptions)
  /\ call \in {TokenizeCall(s, m, p) : s \in HyphenTexts(MaxTokenizeChars),
                                       m \in HyphenWordMaps,
                                       p \in {<<>>, << <<>> >>}}
  /\ result = Pending

NextHyphen == callTokenize

SpecHyphen == InitHyphen /\ [][NextHyphen]_vars

\* tokenize has returned
Tokenized == call.op = "tokenize" /\ result # Pending

\* the length of the run of characters outside seps that s begins with
RunLength(s, seps) ==
  LET stops == {k \in 0..(Len(s) - 1) : CharAt(s, k) \in seps}
  IN IF stops = {} THEN Len(s)
     ELSE CHOOSE k \in stops : \A j \in stops : k <= j

RECURSIVE Runs(_, _)
\* the maximal runs of characters outside seps in s, in order
Runs(s, seps) ==
  IF Len(s) = 0 THEN <<>>
  ELSE IF RunLength(s, seps) = 0 THEN Runs(Slice(s, 1, Len(s)), seps)
  ELSE <<Slice(s, 0, RunLength(s, seps))>>
         \o Runs(Slice(s, RunLength(s, seps), Len(s)), seps)

RECURSIVE ByHyphenRule(_, _)
\* the words, each whole when the vocabulary has it, else its runs
\* between hyphens
ByHyphenRule(words, wordMap) ==
  IF Len(words) = 0 THEN <<>>
  ELSE (IF words[1] \in MapKeySet(wordMap) THEN <<words[1]>>
        ELSE Runs(words[1], {"-"}))
         \o ByHyphenRule(Tail(words), wordMap)

\* C21: the hyphen rule of the space-delimited tokenizer. With a
\* vocabulary given and no multi-word phrase in it, the tokens are, for
\* the words of the case-folded text between white space in their order,
\* the word itself when it is an entry of the vocabulary, hyphens
\* included, and otherwise its non-empty parts between hyphens.
HyphenRule ==
  Tokenized =>
    result = Returns(ByHyphenRule(Runs(ToLowerCase(Trim(call.input)), AsciiSpace),
                                  call.wordMap))

\* "a-" is an entry and stays whole, "-b" is none and is split
HyphenRuleWitness ==
  /\ call = TokenizeCall("A- -b", << <<"a-", 3>>, <<"-", 4>>, <<"b-a-b", 5>> >>, <<>>)
  /\ result = Returns(<<"a-", "b">>)

\* hyphens at the ends and in a row leave no empty token
HyphenRunsReached ==
  /\ call = TokenizeCall("-a--b", << <<"b", 2>> >>, <<>>)
  /\ result = Returns(<<"a", "b">>)


(***************************************************************************)
(* The space-delimited tokenizer: phrases of several words                 *)
(***************************************************************************)

\* longest text given to tokenize with a vocabulary of phrases
MaxPhraseChars == 6

PhraseAlphabet == {"a", "b", " "}

RECURSIVE PhraseTexts(_)
\* the texts over PhraseAlphabet of length at most n
PhraseTexts(n) ==
  IF n = 0 THEN {""}
  ELSE PhraseTexts(n - 1)
         \cup {s \o c : s \in PhraseTexts(n - 1), c \in PhraseAlphabet}

\* vocabularies with phrases of two and three words, one a prefix of
\* another
PhraseWordMaps ==
  { << <<"a", 1>>, <<"a b", 3>>, <<"b", 2>>, <<"a b a", 5>> >>,
    << <<"a b", 3>>, <<"a bb", 4>>, <<"b a", 6>>, <<"a", 1>> >> }

\* the keys of several words, sorted as buildParserLocaleConfig sorts them
SortedPhrasesOf(wordMap) ==
  SelectSeq(StableSort(MapKeys(wordMap), "phrase"),
            LAMBDA phrase : Includes(phrase, " "))

InitPhrases ==
  /\ Construct("en-US", DefaultConverterOptions)
  /\ \E m \in PhraseWordMaps :
       call \in {TokenizeCall(s, m, p) : s \in PhraseTexts(MaxPhraseChars),
                                         p \in {<<>>, <<SortedPhrasesOf(m)>>}}
  /\ result = Pending

NextPhrases == callTokenize

SpecPhrases == InitPhrases /\ [][NextPhrases]_vars

\* the phrases of several words of the vocabulary found in text at pos
\* and followed there by white space or by the end of the text
PhrasesAt(text, pos, wordMap) ==
  {p \in MapKeySet(wordMap) :
     /\ Includes(p, " ")
     /\ StartsWithAt(text, p, pos)
     /\ \/ pos + Len(p) = Len(text)
        \/ CharAt(text, pos + Len(p)) \in AsciiSpace}

\* the one of them with the most words, then the greatest length
LongestPhrase(phrases) ==
  CHOOSE p \in phrases :
    \A q \in phrases :
      \/ WordCount(p) > WordCount(q)
      \/ WordCount(p) = WordCount(q) /\ Len(p) >= Len(q)

RECURSIVE ByPhraseRule(_, _, _)
\* the tokens from position pos on: at each token position the longest
\* phrase found there, else the word there by the hyphen rule
ByPhraseRule(text, pos, wordMap) ==
  IF pos >= Len(text) THEN <<>>
  ELSE IF CharAt(text, pos) \in AsciiSpace
  THEN ByPhraseRule(text, pos + 1, wordMap)
  ELSE IF PhrasesAt(text, pos, wordMap) # {}
  THEN <<LongestPhrase(PhrasesAt(text, pos, wordMap))>>
         \o ByPhraseRule(text, pos + Len(LongestPhrase(PhrasesAt(text, pos, wordMap))),
                         wordMap)
  ELSE ByHyphenRule(<<Slice(text, pos, pos + RunLength(Slice(text, pos, Len(text)),
                                                       AsciiSpace))>>, wordMap)
         \o ByPhraseRule(text, pos + RunLength(Slice(text, pos, Len(text)), AsciiSpace),
                         wordMap)

\* the tokens by that rule, for the call made
TokensByPhraseRule ==
  Returns(ByPhraseRule(ToLowerCase(Trim(call.input)), 0, call.wordMap))

\* C22: phrases of several words. tokenize(text, {wordMap}) emits at each
\* token position the phrase of the vocabulary with the most words, then
\* the greatest length, that is found there and ends before white space
\* or at the end of the text, as one token; and so both with the sorted
\* list sortedPhrases supplied and with it left out.
PhraseMatching ==
  Tokenized => result = TokensByPhraseRule

\* the same for the calls that supply the sorted list: this part holds
PhraseMatchingListSupplied ==
  (Tokenized /\ call.sortedPhrases # <<>>) => result = TokensByPhraseRule

\* with the list supplied "a b a" wins over "a b" and over "a"
PhraseMatchingListSuppliedWitness ==
  /\ call.op = "tokenize"
  /\ call.input = "a b a"
  /\ call.sortedPhrases = << <<"a b a", "a b">> >>
  /\ result = Returns(<<"a b a">>)

\* with the list left out no phrase is found: every word is a token
PhrasesNotFoundWithoutList ==
  /\ call.op = "tokenize"
  /\ call.input = "a b a"
  /\ call.sortedPhrases = <<>>
  /\ Len(call.wordMap) = 4 /\ call.wordMap[4] = <<"a b a", 5>>
  /\ result = Returns(<<"a", "b", "a">>)


(***************************************************************************)
(* The concatenated tokenizer: longest match                               *)
(***************************************************************************)

\* longest text given to tokenizeConcatenated
MaxConcatenatedChars == 5

ConcatenatedAlphabet == {"a", "b", "A", " "}

RECURSIVE ConcatenatedTexts(_)
\* the texts over ConcatenatedAlphabet of length at most n
ConcatenatedTexts(n) ==
  IF n = 0 THEN {""}
  ELSE ConcatenatedTexts(n - 1)
         \cup {s \o c : s \in ConcatenatedTexts(n - 1), c \in ConcatenatedAlphabet}

\* vocabularies: a wordMap and the special words given beside it; words
\* that are prefixes of one another, a word with a space in it, a word
\* that is both an entry and a special word
ConcatenatedVocabularies ==
  { [wordMap |-> << <<"a", 1>>, <<"aba", 3>>, <<"ab", 2>> >>,
     additionalWords |-> <<"b">>],
    [wordMap |-> << <<"b", 2>>, <<"ba", 1>> >>,
     additionalWords |-> <<"bab", "a b", "b">>],
    [wordMap |-> << <<"aa", 11>> >>, additionalWords |-> <<>>] }

\* all the words of a vocabulary
WordsOf(v) == MapKeySet(v.wordMap) \cup SeqToSet(v.additionalWords)

InitConcatenated ==
  /\ Construct("en-US", DefaultConverterOptions)
  /\ \E v \in ConcatenatedVocabularies :
       call \in {TokenizeConcatenatedCall(s, v.wordMap, v.additionalWords, p) :
                   s \in ConcatenatedTexts(MaxConcatenatedChars),
                   p \in {<<>>, <<StableSort(MapKeys(v.wordMap)
                                              \o v.additionalWords, "length")>>}}
  /\ result = Pending

NextConcatenated == callTokenizeConcatenated

SpecConcatenated == InitConcatenated /\ [][NextConcatenated]_vars

\* tokenizeConcatenated has returned
TokenizedConcatenated == call.op = "tokenizeConcatenated" /\ result # Pending

\* the words the text has as prefix at pos
PrefixesAt(text, pos, words) == {w \in words : StartsWithAt(text, w, pos)}

\* the longest of them
Longest(words) == CHOOSE w \in words : \A x \in words : Len(w) >= Len(x)

RECURSIVE ByLongestMatch(_, _, _)
\* the tokens from position pos on: the longest word found at the
\* position, the next position after it; with none, one character on
ByLongestMatch(text, pos, words) ==
  IF pos >= Len(text) THEN <<>>
  ELSE IF PrefixesAt(text, pos, words) = {}
  THEN ByLongestMatch(text, pos + 1, words)
  ELSE <<Longest(PrefixesAt(text, pos, words))>>
         \o ByLongestMatch(text, pos + Len(Longest(PrefixesAt(text, pos, words))),
                           words)

RECURSIVE OccurInOrder(_, _, _)
\* the tokens are found in text from pos on, one after the other and
\* none over another
OccurInOrder(tokens, text, pos) ==
  \/ Len(tokens) = 0
  \/ \E at \in pos..(Len(text) - Len(tokens[1])) :
       /\ StartsWithAt(text, tokens[1], at)
       /\ OccurInOrder(Tail(tokens), text, at + Len(tokens[1]))

\* the vocabulary and the case-folded text of the call made
CallWords == MapKeySet(call.wordMap) \cup SeqToSet(call.additionalWords)
CallFolded == ToLowerCase(Trim(call.input))

\* C23: the concatenated tokenizer. Every token is a word of the
\* vocabulary or a special word; the tokens are those of the longest
\* match: at each position the longest such word the rest of the text
\* begins with, the next position after it, and one character on when
\* there is none; and the tokens occur in the case-folded input in their
\* order, none over another.
LongestMatch ==
  TokenizedConcatenated =>
    /\ result.kind = "returns"
    /\ SeqToSet(result.value) \subseteq CallWords
    /\ result.value = ByLongestMatch(CallFolded, 0, CallWords)
    /\ OccurInOrder(result.value, CallFolded, 0)

\* "aba" wins over "ab" and "a"; the capital is folded, the space skipped
LongestMatchWitness ==
  /\ call.op = "tokenizeConcatenated"
  /\ call.input = "Aba b"
  /\ call.sortedWords = <<>>
  /\ call.additionalWords = <<"b">>
  /\ result = Returns(<<"aba", "b">>)

\* a word with a space in it is matched like any other
SpacedWordReached ==
  /\ call.op = "tokenizeConcatenated"
  /\ call.input = "ba bA"
  /\ call.sortedWords # <<>>
  /\ result = Returns(<<"ba", "ba">>)


(***************************************************************************)
(* The compiled grammar of an instance over sequences of calls             *)
(***************************************************************************)

\* the locale classes given to setLocale
CacheClasses == {"en-US", "sw-KE", "it-IT"}

\* a hundred in each of the three grammars, and a blank text
CacheTexts == {"One Hundred", "Mia Moja", "Cento", " "}

CacheCalls ==
  {ConvertCall(Str(s), NoOptions) : s \in CacheTexts}
    \cup {ParseCall(Str(s), NoOptions) : s \in CacheTexts}
    \cup {SetLocaleCall(c) : c \in CacheClasses}

InitCache ==
  /\ \E code \in LocaleCodes : Construct(code, DefaultConverterOptions)
  /\ Idle

NextCache ==
  \/ \E c \in CacheCalls : Invoke(c)
  \/ convert
  \/ parse
  \/ setLocale

SpecCache == InitCache /\ [][NextCache]_vars

\* the locale class in force: the one of the last setLocale, else the one
\* registered under the locale code (none for an unknown code)
ClassInForce ==
  IF localeClass # <<>> THEN localeClass
  ELSE IF localeCode \in DOMAIN LOCALES THEN <<localeCode>>
  ELSE <<>>

\* this step is a call of convert or parse that needs the grammar
NeedsGrammar ==
  /\ call.op \in {"convert", "parse"}
  /\ result = Pending
  /\ isValidInput(call.words)

\* this step builds the grammar: none was there, the call needs one, and
\* the one built is that of the class in force
BuildsGrammar ==
  /\ parserConfig = <<>>
  /\ NeedsGrammar
  /\ ClassInForce # <<>>
  /\ parserConfig' = <<CompiledLocales[ClassInForce[1]]>>

\* this step is setLocale discarding the locale instance and the grammar
DiscardsGrammar ==
  /\ call.op = "setLocale"
  /\ result = Pending
  /\ localeClass' = <<call.class>>
  /\ locale' = <<>>
  /\ parserConfig' = <<>>

\* a call that needs a grammar leaves one behind wherever a class is in
\* force
GrammarBuiltWhenNeeded ==
  (NeedsGrammar /\ ClassInForce # <<>> /\ result' # Pending)
    => parserConfig' # <<>>

\* the grammar of the instance, when there is one, is that of the class in
\* force, and so is the locale instance
GrammarOfClassInForce ==
  /\ parserConfig # <<>> =>
       /\ ClassInForce # <<>>
       /\ parserConfig = <<CompiledLocales[ClassInForce[1]]>>
  /\ locale # <<>> => locale = ClassInForce

\* what a call of convert or parse has returned is what its text gives in
\* the grammar of the class in force
ConvertedInClassInForce ==
  (Converted /\ result.kind = "returns") =>
    /\ ClassInForce # <<>>
    /\ result.value = ValueOf(call.op, call.words.text, converterOptions,
                              CompiledLocales[ClassInForce[1]])

\* C24: the compiled grammar over sequences of convert, parse and
\* setLocale calls on one instance. The grammar changes only by being
\* built, by a call that needs it while there is none, or by being
\* discarded by setLocale; a built grammar is thus written once and stays
\* as it is until the next setLocale. The grammar held and every value
\* returned are those of the class set last (of the locale code before
\* any setLocale).
GrammarCache ==
  /\ [][ /\ parserConfig' # parserConfig => (BuildsGrammar \/ DiscardsGrammar)
         /\ call.op = "setLocale" /\ result = Pending => DiscardsGrammar
         /\ GrammarBuiltWhenNeeded ]_vars
  /\ [](GrammarOfClassInForce /\ ConvertedInClassInForce)

\* an instance made for English, set to Italian, has converted "Cento"
\* with the Italian grammar
GrammarCacheWitness ==
  /\ localeCode = "en-US"
  /\ localeClass = <<"it-IT">>
  /\ parserConfig = <<CompiledLocales["it-IT"]>>
  /\ call = ConvertCall(Str("Cento"), NoOptions)
  /\ result = Returns(Whole(100))

\* setLocale has just discarded a grammar that was there
GrammarDiscardedReached ==
  /\ localeCode = "en-US"
  /\ localeClass = <<"sw-KE">>
  /\ parserConfig = <<>>
  /\ call = SetLocaleCall("sw-KE")
  /\ result.kind = "returns this"


(***************************************************************************)
(* Validation before the locale is looked up                               *)
(***************************************************************************)

\* the instance is made for a code that is not registered and no class
\* has been set
UnregisteredLocale == localeCode \notin DOMAIN LOCALES /\ localeClass = <<>>

\* the outcome of a rejected call: the error, and nothing cached
RejectedAsInvalid ==
  /\ result = Throws("Invalid Input")
  /\ locale = <<>>
  /\ parserConfig = <<>>

\* C25: validation precedes everything else. On an instance configured
\* with an unregistered locale identifier, convert and parse called with
\* an argument that is null, undefined, no text, the empty text or a text
\* of white space only, with or without currency: true, throw Invalid
\* Input and not Unknown Locale, and the locale instance and the compiled
\* grammar stay unset.
ValidationFirst ==
  ( /\ Converted
    /\ UnregisteredLocale
    /\ \/ call.words.type # "string"
       \/ OnlyWhiteSpace(call.words.text) )
  => RejectedAsInvalid

\* the same for the white space isValidInput tests for (space, tab,
\* newline, carriage return): this part holds
ValidationFirstAsciiSpace ==
  ( /\ Converted
    /\ UnregisteredLocale
    /\ \/ call.words.type # "string"
       \/ \A k \in 0..(Len(call.words.text) - 1) :
            CharAt(call.words.text, k) \in AsciiSpace )
  => RejectedAsInvalid

\* parse(null, {currency: true}) on an instance made for "xx-XX" has
\* thrown Invalid Input
ValidationFirstAsciiSpaceWitness ==
  /\ localeCode = "xx-XX"
  /\ localeClass = <<>>
  /\ call = ParseCall([type |-> "null"], CurrencyMode)
  /\ RejectedAsInvalid

\* convert of a form feed on such an instance has thrown Unknown Locale
FormFeedUnknownLocale ==
  /\ localeCode = "xx-XX"
  /\ localeClass = <<>>
  /\ call = ConvertCall(Str("\f"), NoOptions)
  /\ result = Throws("Unknown Locale")


(***************************************************************************)
(* The set of scale values                                                 *)
(***************************************************************************)

\* greatest power of ten among the mapped values
MaxScalePower == 17

\* the values m x 10^k for m from 1 to 5
ScaleCandidates == {Tens(m, k) : m \in 1..5, k \in 0..MaxScalePower}

InitScale ==
  /\ Construct("en-US", DefaultConverterOptions)
  /\ call \in {[op |-> "extractScaleWords",
                wordToNumber |-> << <<"a", v>>, <<"b", w>> >>] :
                 v \in ScaleCandidates, w \in ScaleCandidates}
  /\ result = Pending

NextScale == callExtractScaleWords

SpecScale == InitScale /\ [][NextScale]_vars

\* extractScaleWords has returned
ScalesExtracted == call.op = "extractScaleWords" /\ result # Pending

\* 10^k for the powers k
PowersOfTen(powers) == {Tens(1, k) : k \in powers}

\* the numbers of a set and their doubles
WithDoubles(magnitudes) ==
  magnitudes \cup {Tens(2, n.k) : n \in magnitudes}

\* the mapped values that are scale values are those of the set
ScaleValuesAre(scales) ==
  ScalesExtracted =>
    /\ result.kind = "returns"
    /\ \A i \in 1..Len(call.wordToNumber) :
         call.wordToNumber[i][2] \in result.value
           <=> call.wordToNumber[i][2] \in scales
    /\ result.value \subseteq MapValueSet(call.wordToNumber)

\* C26, as stated: the scale magnitudes are 100, 1000, 10^4 to 10^9,
\* 10^11, 10^12, 10^13, 10^15 and 10^16, and a mapped value is a scale
\* value if and only if it is one of them or twice one of them; 10^10 and
\* 10^14 are no scale values.
ScaleWordSetAsStated ==
  ScaleValuesAre(WithDoubles(PowersOfTen((2..9) \cup {11, 12, 13, 15, 16})))

\* C26: the scale magnitudes are the fifteen powers of ten from 10^2 to
\* 10^16, 10^10 and 10^14 among them, and a mapped value is a scale value
\* if and only if it is one of them or twice one of them.
ScaleWordSet ==
  ScaleValuesAre(WithDoubles(PowersOfTen(2..16)))

\* 10^10 and twice 10^14 are mapped, and both are scale values
ScaleWordSetWitness ==
  /\ call.op = "extractScaleWords"
  /\ call.wordToNumber = << <<"a", Tens(1, 10)>>, <<"b", Tens(2, 14)>> >>
  /\ result = Returns({Tens(1, 10), Tens(2, 14)})

\* 10, 5 x 100 and 10^17 are none
NoScaleValueReached ==
  /\ call.op = "extractScaleWords"
  /\ call.wordToNumber \in { << <<"a", Tens(1, 1)>>, <<"b", Tens(5, 2)>> >>,
                             << <<"a", Tens(1, 17)>>, <<"b", Tens(2, 17)>> >> }
  /\ result = Returns({})

\* the members of SCALE_VALUES that fit the model's integers are the
\* scale values of the parser's arithmetic
ScaleValuesInRange ==
  SCALE_VALUES = {Pow10(n.k) : n \in {s \in SCALE_VALUES_TENS : s.k <= 9}}


(***************************************************************************)
(* Detection of the postfix "one"                                          *)
(***************************************************************************)

\* most exact-phrase entries in a description
MaxExactEntries == 2

\* exact-phrase entries: "<word> <one>" for a scale magnitude, for twice a
\* magnitude and for a number that is no scale; the words the other way
\* round; one, three and no space; a second word that is no "one"; single
\* words for 2000 and for 1
ExactEntries ==
  { EW(100, "Mia Moja"), EW(1000, "Elfu Moja"), EW(2000, "Elfu Moja"),
    EW(20, "Ishirini Moja"), EW(100, "Mia MOJA"), EW(100, "Moja Mia"),
    EW(100, "Mia Moja Moja"), EW(100, "Miamoja"), EW(100, "Mia Mbili"),
    EW(2000, "Elfumbili"), EW(1, "Mosi"), EW(100, "Mia Mosi") }

\* Swahili, and Swahili without a word for 1000
PostfixBases ==
  { SwKE,
    [SwKE EXCEPT !.numberWordsMapping =
       SelectSeq(@, LAMBDA mapping : mapping.number # 1000)] }

PostfixDescriptions ==
  { [base EXCEPT !.exactWordsMapping = entries] :
      base \in PostfixBases, entries \in SeqsUpTo(ExactEntries, MaxExactEntries) }

InitPostfix ==
  /\ Construct("sw-KE", DefaultConverterOptions)
  /\ call \in {[op |-> "buildParserLocaleConfig", config |-> d] :
                 d \in PostfixDescriptions}
  /\ result = Pending

NextPostfix == callBuildParserLocaleConfig

SpecPostfix == InitPostfix /\ [][NextPostfix]_vars

\* buildParserLocaleConfig has returned
Compiled == call.op = "buildParserLocaleConfig" /\ result # Pending

\* the single words the compiled vocabulary maps to 1
OneWordsOf(wordToNumber) ==
  {w \in MapKeySet(wordToNumber) :
     MapGet(wordToNumber, w) = 1 /\ ~Includes(w, " ")}

\* the entry is one phrase of exactly two words, the second a "one" word
WordThenOne(entry, wordToNumber) ==
  /\ Len(entry.value) = 1
  /\ Len(Runs(entry.value[1], {" "})) = 2
  /\ ToLowerCase(Runs(entry.value[1], {" "})[2]) \in OneWordsOf(wordToNumber)

\* the flag is set exactly when some entry is such a phrase for a number
\* of the set
FlagIffEntryFor(numbers) ==
  result.value.usesPostfixOne
    <=> \E i \in 1..Len(call.config.exactWordsMapping) :
          /\ WordThenOne(call.config.exactWordsMapping[i], result.value.wordToNumber)
          /\ call.config.exactWordsMapping[i].number \in numbers

\* C27, as stated: usesPostfixOne is true if and only if some
\* exact-phrase entry is a phrase of exactly two tokens whose second token
\* is a single word mapped to 1 and whose number is a scale magnitude.
PostfixOneDetectionAsStated ==
  Compiled => FlagIffEntryFor(SCALE_VALUES)

\* C27: usesPostfixOne is true if and only if some exact-phrase entry is a
\* phrase of exactly two tokens whose second token is a single word mapped
\* to 1 and whose number is a scale word value of the compiled grammar: a
\* scale magnitude or twice one, and the value of some word of the
\* compiled vocabulary (which holds no exact phrase of several words).
PostfixOneDetection ==
  Compiled =>
    FlagIffEntryFor({n \in MapValueSet(result.value.wordToNumber) :
                       \/ n \in SCALE_VALUES
                       \/ \E s \in SCALE_VALUES : n = 2 * s})

\* "Mia Moja" for 100 sets the flag, "Ishirini Moja" for 20 beside it
\* does not matter
PostfixOneDetectionWitness ==
  /\ Compiled
  /\ call.config.exactWordsMapping = <<EW(20, "Ishirini Moja"), EW(100, "Mia Moja")>>
  /\ result.value.usesPostfixOne

\* "Elfu Moja" for 1000 does not set the flag when no word is mapped to
\* 1000
MagnitudeNotMappedReached ==
  /\ Compiled
  /\ call.config.exactWordsMapping = <<EW(1000, "Elfu Moja")>>
  /\ 1000 \notin MapValueSet(result.value.wordToNumber)
  /\ ~result.value.usesPostfixOne

\* "Elfu Moja" for 2000 sets the flag when a word is mapped to 2000
DoubleMagnitudeReached ==
  /\ Compiled
  /\ call.config.exactWordsMapping = <<EW(2000, "Elfumbili"), EW(2000, "Elfu Moja")>>
  /\ result.value.usesPostfixOne


(***************************************************************************)
(* The greatest scale word occurring more than once                        *)
(***************************************************************************)

\* longest token sequence with repeated scale words
MaxTieTokens == 5

\* English with the conjunction word (parseIntegerTokensWithScales) and
\* without one (parseWithParallelScales)
TieLocales == {"en-US", "en-XA"}

TieVocabulary(code) ==
  IF code = "en-US" THEN {"two", "three", "hundred", "thousand", "and"}
  ELSE {"two", "three", "hundred", "thousand"}

RECURSIVE ScaleZeros(_, _)
\* the zeros of the scale words of the tokens, all together
ScaleZeros(tokens, config) ==
  IF Len(tokens) = 0 THEN 0
  ELSE (IF IsScaleToken(tokens[1], config)
        THEN DigitCount(ScaleOf(tokens[1], config)) - 1 ELSE 0)
         + ScaleZeros(Tail(tokens), config)

\* the sequences whose scale words multiplied together stay within the
\* integers of the model
TieSequences(code) ==
  {t \in SeqsUpTo(TieVocabulary(code), MaxTieTokens) :
     ScaleZeros(t, CompiledLocales[code]) <= 9}

InitTie ==
  \E code \in TieLocales :
    /\ Construct(code, DefaultConverterOptions)
    /\ call \in {TokensCall("parseIntegerTokens", t) : t \in TieSequences(code)}
    /\ result = Pending

NextTie == callParseIntegerTokens

SpecTie == InitTie /\ [][NextTie]_vars

\* the tokens without the conjunction words
WithoutAnd(tokens, config) ==
  SelectSeq(tokens, LAMBDA token : token \notin config.andWordsSet)

\* the positions of the scale words of the greatest value among the tokens
GreatestScalePositions(t, config) ==
  {k \in 1..Len(t) :
     /\ IsScaleToken(t[k], config)
     /\ \A j \in 1..Len(t) :
          IsScaleToken(t[j], config) => ScaleOf(t[j], config) <= ScaleOf(t[k], config)}

\* the first of them
FirstOf(positions) == CHOOSE k \in positions : \A j \in positions : k <= j

\* the value of t split at position k: what stands before the scale word
\* (1 when nothing does) times its value, plus what stands after it
SplitValue(t, k, config) ==
  (IF k = 1 THEN 1 ELSE parseIntegerTokens(SubSeq(t, 1, k - 1), config))
    * ScaleOf(t[k], config)
  + parseIntegerTokens(SubSeq(t, k + 1, Len(t)), config)

\* the greatest scale word occurs more than once in the tokens parsed
ScaleTie ==
  /\ ParsedInteger
  /\ Cardinality(GreatestScalePositions(WithoutAnd(call.tokens, parserConfig[1]),
                                        parserConfig[1])) > 1

\* C28: tie-break among equal scale words. When the greatest scale
\* magnitude occurs more than once among the tokens, parseInteger splits
\* at its first occurrence: the value is what stands before it (1 when
\* nothing does) times the magnitude, plus the value of all that stands
\* after it, the later occurrences included; in the parser of grammars
\* with a conjunction word and in that of grammars without one.
ScaleTieBreak ==
  ScaleTie =>
    result.value =
      SplitValue(WithoutAnd(call.tokens, parserConfig[1]),
                 FirstOf(GreatestScalePositions(WithoutAnd(call.tokens, parserConfig[1]),
                                                parserConfig[1])),
                 parserConfig[1])

\* the examples: [thousand, thousand] = 1000 + 1000 and
\* [two, thousand, three, thousand] = 2 * 1000 + 3 * 1000, in both parsers
ScaleTieExamples ==
  ParsedInteger =>
    /\ call.tokens = <<"thousand", "thousand">> => result.value = 2000
    /\ call.tokens = <<"two", "thousand", "three", "thousand">>
         => result.value = 5000

\* [two, thousand, three, thousand] parsed by the parser of the grammars
\* without a conjunction word
ScaleTieBreakWitness ==
  /\ ScaleTie
  /\ localeCode = "en-XA"
  /\ call.tokens = <<"two", "thousand", "three", "thousand">>
  /\ result.value = 5000

\* the same with a conjunction word between, parsed by the other parser
ScaleTieWithAndReached ==
  /\ ScaleTie
  /\ localeCode = "en-US"
  /\ call.tokens = <<"two", "thousand", "and", "three", "thousand">>
  /\ result.value = 5000


(***************************************************************************)
(* The index-range parsers and the parser on slices                        *)
(***************************************************************************)

\* longest token sequence parsed in a range
MaxRangeTokens == 3

\* the calls of parseIntegerTokensInRange on the sequences of a locale, with
\* every start and end up to the length of the sequence
RangeCalls(code) ==
  UNION {{RangeCall(t, start, end) : start \in 0..Len(t), end \in 0..Len(t)} :
           t \in {s \in TokenSequences(code) : Len(s) <= MaxRangeTokens}}

InitRefine ==
  \E code \in IntegerLocales :
    /\ Construct(code, DefaultConverterOptions)
    /\ call \in {TokensCall("parseIntegerTokens", t) : t \in TokenSequences(code)}
                  \cup RangeCalls(code)
    /\ result = Pending

NextRefine == callParseIntegerTokens \/ callParseIntegerTokensInRange

SpecRefine == InitRefine /\ [][NextRefine]_vars

\* the last call was parseIntegerTokensInRange(tokens, start, end) and
\* returned
ParsedRange == call.op = "parseIntegerTokensInRange" /\ result.kind = "returns"

\* C29: the index-range parsers refine the recursion on slices. For every
\* token sequence and every compiled grammar, parseIntegerTokens (through
\* parseWithParallelScales when the grammar has no conjunction word and
\* through parseIntegerTokensWithScales when it has one) returns what the
\* recursion on copied slices returns for the tokens, and
\* parseIntegerTokensInRange returns what it returns for the slice from
\* start to end.
RefinesSlices ==
  /\ ParsedInteger =>
       result.value = parseIntegerTokensOnSlices(call.tokens, parserConfig[1])
  /\ ParsedRange =>
       result.value =
         parseIntegerTokensOnSlices(Slice(call.tokens, call.start, call.end),
                                    parserConfig[1])

\* Swahili "moja mia moja", one hundred and one: the left coefficient is
\* explicit and the trailing one is added, by the parser on parallel arrays
RefinesSlicesWitness ==
  /\ ParsedInteger
  /\ localeCode = "sw-KE"
  /\ call.tokens = <<"moja", "mia", "moja">>
  /\ result.value = 101
  /\ parseIntegerTokensOnSlices(call.tokens, parserConfig[1]) = 101

\* "e milioni" within "uno e milioni", Italian: the conjunction word is
\* dropped and the implied dual gives two million, in a range
RangeWithAndReached ==
  /\ ParsedRange
  /\ localeCode = "it-IT"
  /\ call.tokens = <<"uno", "e", "milioni">>
  /\ call.start = 1 /\ call.end = 3
  /\ result.value = 2000000

\* "two hundred and one thousand" with the English conjunction word, by the
\* parser on scale positions
WithScalesReached ==
  /\ ParsedInteger
  /\ localeCode = "en-US"
  /\ call.tokens = <<"two", "hundred", "and", "thousand">>
  /\ result.value = 200000


(***************************************************************************)
(* The sign reported by parse                                              *)
(***************************************************************************)

\* longest text, in words
MaxSignWords == 3

SignWords == {"Minus", "Zero", "One", "First", "Point", "Dollars", "Cents"}

SignTexts == {Join(t, " ") : t \in SeqsUpTo(SignWords, MaxSignWords)}

InitSign ==
  /\ Construct("en-US", DefaultConverterOptions)
  /\ call \in {ParseCall(Str(s), o) : s \in SignTexts, o \in {NoOptions, CurrencyMode}}
  /\ result = Pending

NextSign == parse

SpecSign == InitSign /\ [][NextSign]_vars

\* the last call was parse and returned a ParseResult
Parsed == call.op = "parse" /\ result.kind = "returns"

\* the text of the call begins with a negation word
LeadingNegation ==
  /\ Len(getTokens(call.words.text, parserConfig[1])) > 0
  /\ getTokens(call.words.text, parserConfig[1])[1]
       \in SeqToSet(parserConfig[1].texts.minus)

\* the sign as stated: in every mode isNegative is true exactly when the
\* value is below zero
SignConsistencyAsStated ==
  Parsed => (result.value.isNegative <=> result.value.value.num < 0)

\* C30: the sign of a ParseResult. In plain and ordinal mode isNegative is
\* true exactly when the value is below zero. In currency mode isNegative
\* is true exactly when the text begins with a negation word; the value is
\* below zero exactly when it does and the amount is not zero, so that a
\* zero amount after a negation word is reported with isNegative true.
SignOfParseResult ==
  Parsed =>
    IF result.value.isCurrency
    THEN /\ result.value.isNegative <=> LeadingNegation
         /\ result.value.value.num < 0
              <=> (result.value.isNegative /\ result.value.value.num # 0)
         /\ result.value.value.num < 0 => result.value.isNegative
    ELSE result.value.isNegative <=> result.value.value.num < 0

\* "Minus Zero Dollars" in currency mode: isNegative with the value zero
SignOfParseResultWitness ==
  /\ Parsed
  /\ call.words = Str("Minus Zero Dollars")
  /\ call.options = CurrencyMode
  /\ result.value.isCurrency
  /\ result.value.isNegative
  /\ result.value.value.num = 0

\* "Minus Zero" in plain mode: not negative
PlainMinusZeroReached ==
  /\ Parsed
  /\ call.words = Str("Minus Zero")
  /\ call.options = NoOptions
  /\ ~result.value.isNegative
  /\ result.value.value.num = 0

\* "Minus One" in plain mode: a value below zero with isNegative
NegativeReached ==
  /\ Parsed
  /\ call.words = Str("Minus One")
  /\ call.options = NoOptions
  /\ result.value.isNegative
  /\ result.value.value.num < 0

\* "Minus One Dollars" in currency mode: negative with isNegative
NegativeCurrencyReached ==
  /\ Parsed
  /\ call.words = Str("Minus One Dollars")
  /\ call.options = CurrencyMode
  /\ result.value.isNegative
  /\ result.value.value.num < 0

=============================================================================
